---- MODULE Spec2Model ----
(***************************************************************************)
(* Kanban widget: drag-and-drop reordering and optimistic-state            *)
(* reconciliation (SingleBoard.tsx / AdvancedKanbanBoard.tsx and           *)
(* MultiBoard.tsx / MultiBoardDragDrop.tsx).                               *)
(*                                                                         *)
(* Optional values (JS null / undefined) are sequences of length <= 1:     *)
(* <<>> is "absent", <<v>> is "v".  An empty array is a present value.     *)
(* Time is counted in ticks of 1000 ms.                                    *)
(***************************************************************************)
EXTENDS Integers, Sequences, FiniteSets, TLC

\* ---------------------------------------------------------------- bounds
MaxEvents == 2       \* committed moves plus foreign data edits per behaviour
MaxEnvEvents == 1    \* the same, when the external sinks misbehave
MaxRaf == 2          \* animation-frame callbacks that may be outstanding
MaxSort == 1         \* largest sort key of the builder harness
MaxIndex == 3        \* largest newIndex of the move harness
MaxMoves == 2        \* moves applied in a row by the move harness
MaxHookDrops == 1    \* drops handed to the shared drop hook by its harness
MaxCacheEvents == 3  \* committed moves plus foreign edits when the cache is followed

\* setTimeout(..., 3000) of the reconciliation effect, in ticks of 1000 ms
Timeout == 3

\* setTimeout(..., 3000) of the cache hook's fallback effect, in ticks
CacheTimeout == 3

\* setTimeout(..., 1000) of the multi-board cache effect, in ticks
BoardCacheTimeout == 1

None == <<>>
Some(v) == <<v>>

\* s_column_id?.get(item)?.value || ""
StrOrEmpty(v) == IF v = None THEN "" ELSE v[1]

\* s_card_sort?.get(item)?.value?.toNumber() || 0
NumOrZero(v) == IF v = None THEN 0 ELSE v[1]

Min(a, b) == IF a < b THEN a ELSE b

Range(s) == {s[i] : i \in 1..Len(s)}

\* Array.prototype.findIndex over the test results of the elements,
\* one-based; 0 is JavaScript's -1
FindIndex(hits) ==
    IF \E i \in 1..Len(hits) : hits[i]
    THEN CHOOSE i \in 1..Len(hits) : hits[i] /\ \A j \in 1..(i - 1) : ~hits[j]
    ELSE 0

\* a search whose "not found" is taken for the first element
FindIndexOrFirst(s, id) ==
    LET found == FindIndex([i \in 1..Len(s) |-> s[i].id = id])
    IN IF found = 0 /\ Len(s) > 0 THEN 1 ELSE found

\* s.findIndex(x => x.id === id)
FindIndexById(s, id) == FindIndex([i \in 1..Len(s) |-> s[i].id = id])

\* a removal that removes nothing
RemoveNothing(s, at) == s

\* splice(at) without a delete count: everything from at on is removed
RemoveFrom(s, at) == SubSeq(s, 1, at - 1)

\* Array.prototype.splice(at, 1), at one-based
RemoveAt(s, at) == [i \in 1..(Len(s) - 1) |-> IF i < at THEN s[i] ELSE s[i + 1]]

\* Array.prototype.splice(start, 0, x): start is zero-based; a negative start
\* counts from the end, and start is clamped to 0..length
InsertAt(s, start, x) ==
    LET at == IF start < 0
              THEN (IF Len(s) + start < 0 THEN 0 ELSE Len(s) + start)
              ELSE Min(start, Len(s))
    IN [i \in 1..(Len(s) + 1) |->
          IF i <= at THEN s[i] ELSE IF i = at + 1 THEN x ELSE s[i - 1]]

\* Array.prototype.sort((a, b) => key(a) - key(b)): ascending and stable.
\* The element at input position i lands after every element with a smaller
\* key and after the earlier elements with an equal key.
\* keys[i] is the key of the element at input position i.
SortRank(keys, i) ==
    1 + Cardinality({j \in 1..Len(keys) : keys[j] < keys[i]})
      + Cardinality({j \in 1..(i - 1) : keys[j] = keys[i]})

SortByKey(s, keys) ==
    [p \in 1..Len(s) |-> s[CHOOSE i \in 1..Len(s) : SortRank(keys, i) = p]]

\* the longest column list of a board list
MaxColumnsPerBoard(boards) ==
    IF boards = <<>> THEN 0
    ELSE CHOOSE n \in {Len(boards[b].columns) : b \in 1..Len(boards)} :
            \A b \in 1..Len(boards) : Len(boards[b].columns) <= n

\* ------------------------------------------------------------ data source
\* A record of a Mendix list: guid is the ObjectItem, id / parent / sort are
\* the attribute values (absent when the attribute has no value).
Rec(g, id, parent, sort) == [guid |-> g, id |-> id, parent |-> parent, sort |-> sort]

\* a key that orders records the other way round
DescendingSortKeyOf(r) == 0 - NumOrZero(r.sort)

SortKeyOf(r) == NumOrZero(r.sort)

\* cardUtils.ts createCard
createCard(cardItem, cardId, columnId, shouldUseCache, hasCachedHtml) ==
    [id |-> cardId,
     content |-> IF shouldUseCache /\ hasCachedHtml THEN "cached" ELSE "real",
     item |-> cardItem,
     isUsingCache |-> shouldUseCache,
     key |-> <<cardId, columnId, IF shouldUseCache THEN "-cached" ELSE "">>]

\* a filter that also drops the records without an id
ChildrenWithId(recs, parentId) ==
    SelectSeq(recs, LAMBDA r : r.id # None /\ StrOrEmpty(r.parent) = parentId)

\* items.filter(item => parentAttribute.get(item).value === parentId)
ChildrenOf(recs, parentId) == SelectSeq(recs, LAMBDA r : StrOrEmpty(r.parent) = parentId)

\* the filter / sort / map chain that builds one column's cards
CardsOfColumn(cardRecs, columnId, usingCache, cached) ==
    LET mine == ChildrenOf(cardRecs, columnId)
        sorted == SortByKey(mine, [k \in 1..Len(mine) |-> SortKeyOf(mine[k])])
    IN [i \in 1..Len(sorted) |->
          LET cardId == StrOrEmpty(sorted[i].id)
          IN createCard(sorted[i].guid, cardId, columnId,
                        cardId \in usingCache, cardId \in cached)]

\* SingleBoard.tsx getColumns
getColumns(d, usingCache, cached) ==
    IF d.status # "available" THEN <<>>
    ELSE LET built == [i \in 1..Len(d.columns) |->
                          LET columnId == StrOrEmpty(d.columns[i].id)
                          IN [id |-> columnId,
                              cards |-> CardsOfColumn(d.cards, columnId, usingCache, cached),
                              sortValue |-> SortKeyOf(d.columns[i])]]
         IN SortByKey(built, [k \in 1..Len(built) |-> built[k].sortValue])

\* MultiBoard.tsx getBoards
getBoards(d, usingCache, cached) ==
    IF d.status # "available" THEN <<>>
    ELSE LET built ==
                 [b \in 1..Len(d.boards) |->
                    LET boardId == StrOrEmpty(d.boards[b].id)
                        mine == ChildrenOf(d.columns, boardId)
                        sorted == SortByKey(mine, [k \in 1..Len(mine) |-> SortKeyOf(mine[k])])
                    IN [id |-> boardId,
                        columns |-> [i \in 1..Len(sorted) |->
                                       LET columnId == StrOrEmpty(sorted[i].id)
                                       IN [id |-> columnId,
                                           cards |-> CardsOfColumn(d.cards, columnId,
                                                                   usingCache, cached)]],
                        sortValue |-> SortKeyOf(d.boards[b])]]
         IN SortByKey(built, [k \in 1..Len(built) |-> built[k].sortValue])

\* ------------------------------------------------------- optimistic move
\* a moved card that is a new object of the same id, without the record
movedCardWithoutRecord(originalCard, targetColumnId) ==
    [originalCard EXCEPT !.key = <<originalCard.id, targetColumnId, "">>, !.item = ""]

\* the card object placed in the target column: same id and item, new key
movedCard(originalCard, targetColumnId) ==
    [originalCard EXCEPT !.key = <<originalCard.id, targetColumnId, "">>]

\* variants of insertIndex that the move properties must tell apart from it
insertIndexPlusOne(newIndex, length) ==
    IF newIndex # None THEN Min(newIndex[1] + 1, length) ELSE length

insertIndexAtEnd(newIndex, length) == length

\* Math.min(newIndex, targetColumn.cards.length) or the length
insertIndex(newIndex, length) ==
    IF newIndex # None THEN Min(newIndex[1], length) ELSE length

\* SingleBoard.tsx performOptimisticCardMove
SingleBoard_performOptimisticCardMove(columns, cardId, sourceColumnId, targetColumnId, newIndex) ==
    LET si == FindIndexById(columns, sourceColumnId)
        ti == FindIndexById(columns, targetColumnId)
    IN IF si = 0 \/ ti = 0 THEN columns
       ELSE LET cardIndex == FindIndexById(columns[si].cards, cardId)
            IN IF cardIndex = 0 THEN columns
               ELSE LET originalCard == columns[si].cards[cardIndex]
                        removed == [columns EXCEPT ![si].cards = RemoveAt(@, cardIndex)]
                        target == removed[ti].cards
                    IN [removed EXCEPT ![ti].cards =
                          InsertAt(target, insertIndex(newIndex, Len(target)),
                                   movedCard(originalCard, targetColumnId))]

\* the <<board, column>> positions of the columns with this id, in loop order
ColumnPositions(boards, columnId) ==
    {bc \in {<<b, c>> : b \in 1..Len(boards), c \in 1..MaxColumnsPerBoard(boards)} :
        /\ bc[2] <= Len(boards[bc[1]].columns)
        /\ boards[bc[1]].columns[bc[2]].id = columnId}

\* the loop over boards and columns assigns at every match and never breaks:
\* the last column with the id is the one kept
LastColumnWithId(boards, columnId) ==
    LET ps == ColumnPositions(boards, columnId)
    IN IF ps = {} THEN None
       ELSE Some(CHOOSE p \in ps : \A q \in ps :
                    q[1] < p[1] \/ (q[1] = p[1] /\ q[2] <= p[2]))

\* MultiBoard.tsx performOptimisticCardMove
MultiBoard_performOptimisticCardMove(boards, cardId, sourceColumnId, targetColumnId, newIndex) ==
    LET src == LastColumnWithId(boards, sourceColumnId)
        tgt == LastColumnWithId(boards, targetColumnId)
    IN IF src = None \/ tgt = None THEN boards
       ELSE LET sb == src[1][1]
                sc == src[1][2]
                tb == tgt[1][1]
                tc == tgt[1][2]
                cardIndex == FindIndexById(boards[sb].columns[sc].cards, cardId)
            IN IF cardIndex = 0 THEN boards
               ELSE LET originalCard == boards[sb].columns[sc].cards[cardIndex]
                        removed == [boards EXCEPT ![sb].columns[sc].cards =
                                      RemoveAt(@, cardIndex)]
                        target == removed[tb].columns[tc].cards
                    IN [removed EXCEPT ![tb].columns[tc].cards =
                          InsertAt(target, insertIndex(newIndex, Len(target)),
                                   movedCard(originalCard, targetColumnId))]

\* --------------------------------------------------- the move, by reference
\* performOptimisticCardMove splices arrays in place.  Here the card arrays
\* are heap cells: the array of the k-th column (in board-major order) of an
\* input tree with n columns is cell k, and a function from cells to card
\* sequences is the heap.

\* a copy that shares the card arrays with the input ({...col} alone)
sharedCardsRef(k, n) == k

\* cards: [...col.cards]: the k-th column of the copy gets a fresh array
cardsRef(k, n) == n + k

\* the heap once the copy of the tree is made
HeapAfterCopy(flat) ==
    [r \in 1..(2 * Len(flat)) |->
        IF r <= Len(flat) THEN flat[r].cards ELSE flat[r - Len(flat)].cards]

\* the column the search for an id ends with: find() takes the first, the
\* loop of MultiBoard.tsx keeps the last
FoundColumn(m, flat, columnId) ==
    LET hits == {k \in 1..Len(flat) : flat[k].id = columnId}
    IN IF hits = {} THEN 0
       ELSE IF m = "single" THEN CHOOSE k \in hits : \A j \in hits : k <= j
       ELSE CHOOSE k \in hits : \A j \in hits : j <= k

\* the heap when performOptimisticCardMove returns
HeapAfterMove(m, flat, cardId, sourceColumnId, targetColumnId, newIndex) ==
    LET n == Len(flat)
        heap == HeapAfterCopy(flat)
        si == FoundColumn(m, flat, sourceColumnId)
        ti == FoundColumn(m, flat, targetColumnId)
    IN IF si = 0 \/ ti = 0 THEN heap
       ELSE LET sourceCards == cardsRef(si, n)
                targetCards == cardsRef(ti, n)
                cardIndex == FindIndexById(heap[sourceCards], cardId)
            IN IF cardIndex = 0 THEN heap
               ELSE LET originalCard == heap[sourceCards][cardIndex]
                        spliced == [heap EXCEPT ![sourceCards] = RemoveAt(@, cardIndex)]
                    IN [spliced EXCEPT ![targetCards] =
                          InsertAt(@, insertIndex(newIndex, Len(@)),
                                   movedCard(originalCard, targetColumnId))]

\* --------------------------------------------------------- reconciliation
\* a comparison of the card objects instead of their ids
SameCards(baseCards, optCards) == baseCards = optCards

\* a comparison of the lengths alone
SameCardCount(baseCards, optCards) == Len(baseCards) = Len(optCards)

\* baseCol.cards.length === optCol.cards.length && every id equal by index
SameCardIds(baseCards, optCards) ==
    /\ Len(baseCards) = Len(optCards)
    /\ \A index \in 1..Len(baseCards) : baseCards[index].id = optCards[index].id

\* SingleBoard.tsx: optimisticMatches of the reconciliation effect
SingleBoard_optimisticMatches(optimisticColumns, baseColumns) ==
    \A o \in 1..Len(optimisticColumns) :
        LET optCol == optimisticColumns[o]
            bi == FindIndexById(baseColumns, optCol.id)
        IN bi # 0 /\ SameCardIds(baseColumns[bi].cards, optCol.cards)

\* MultiBoard.tsx: optimisticMatches of the reconciliation effect
MultiBoard_optimisticMatches(optimisticBoards, baseBoards) ==
    \A o \in 1..Len(optimisticBoards) :
        LET optBoard == optimisticBoards[o]
            bi == FindIndexById(baseBoards, optBoard.id)
        IN /\ bi # 0
           /\ Len(baseBoards[bi].columns) = Len(optBoard.columns)
           /\ \A c \in 1..Len(baseBoards[bi].columns) :
                 LET baseCol == baseBoards[bi].columns[c]
                     oi == FindIndexById(optBoard.columns, baseCol.id)
                 IN oi # 0 /\ SameCardIds(baseCol.cards, optBoard.columns[oi].cards)

\* ------------------------------------------------------------------ state
VARIABLES
    mode,               \* typeOfBoard: "single" or "multi"
    data,               \* the data source: status, board / column / card records
    base,               \* baseColumns / baseBoards of the last render
    optimistic,         \* optimisticColumns / optimisticBoards (None or Some(tree))
    timer,              \* fallback timer of the reconciliation effect: ticks left
    age,                \* ticks since the commit that created the pending tree
    dirty,              \* a state or prop change awaits its render and effects
    cardsUsingCache,    \* useCardCache: ids of cards shown from the cache
    cachedCardContent,  \* useCardCache: ids that have cached HTML
    cacheTimer,         \* useCardCache: ticks left on the 3000 ms cache timer, or None
    boardCacheTimer,    \* MultiBoard: ticks left on the 1000 ms cache timer, or None
    cacheEffectDue,     \* cardsUsingCache is a new Set since the cache effect last ran
    changeJSON,         \* last value written to the changeJSON attribute
    sortOrderJSON,      \* last value written to the sortOrderJSON attribute
    dropCount,          \* calls of the board's onCardDrop (handleCardDrop)
    execCount,          \* calls of the action's execute()
    budget,             \* committed moves and foreign edits still to explore
    canExecute,         \* onCardDrop.canExecute of the configured action
    sinkFails,          \* which external call throws: "none", "change", "order", "execute"
    active,             \* dnd-kit: id of the dragged item
    over,               \* dnd-kit: droppable under the pointer
    activeItem,         \* activeItem (single) / activeCard (multi)
    activeColumnId,     \* activeColumnId (single board only)
    dragOverInfo,       \* hover annotation
    raf                 \* requestAnimationFrame callbacks not yet run

cacheVars == <<cacheTimer, boardCacheTimer, cacheEffectDue>>
storeVars == <<base, optimistic, timer, age, dirty, cardsUsingCache, cachedCardContent,
               cacheVars>>
sinkVars == <<changeJSON, sortOrderJSON, dropCount, execCount>>
dragVars == <<active, over, activeItem, activeColumnId, dragOverInfo, raf>>
envVars == <<mode, canExecute, sinkFails>>
vars == <<envVars, data, budget, storeVars, sinkVars, dragVars>>

\* ------------------------------------------------------------- data sets
CardIds == {"c1", "c2", "c3"}

ColumnRecs(m) ==
    IF m = "single"
    THEN <<Rec("colB", Some("B"), None, Some(1)), Rec("colA", Some("A"), None, Some(0))>>
    ELSE <<Rec("colB", Some("B"), Some("b2"), Some(0)),
           Rec("colA", Some("A"), Some("b1"), Some(0))>>

BoardRecs(m) ==
    IF m = "single" THEN <<>>
    ELSE <<Rec("board2", Some("b2"), None, Some(1)), Rec("board1", Some("b1"), None, None)>>

CardRecs ==
    <<Rec("card1", Some("c1"), Some("A"), Some(0)),
      Rec("card2", Some("c2"), Some("A"), Some(1)),
      Rec("card3", Some("c3"), Some("B"), None)>>

InitialData(m) ==
    [status |-> "available", boards |-> BoardRecs(m), columns |-> ColumnRecs(m),
     cards |-> CardRecs]

\* the tree a render builds from the data source and the cache state
BuildTree(m, d, usingCache, cached) ==
    IF m = "single" THEN getColumns(d, usingCache, cached)
    ELSE getBoards(d, usingCache, cached)

\* every column of a tree, in display order
FlatColumns(m, tree) ==
    IF m = "single" THEN tree
    ELSE LET n == MaxColumnsPerBoard(tree)
             At(k) == tree[((k - 1) \div n) + 1].columns
             Valid(k) == ((k - 1) % n) + 1 <= Len(At(k))
             picks == SelectSeq([k \in 1..(Len(tree) * n) |-> k], Valid)
         IN [i \in 1..Len(picks) |-> At(picks[i])[((picks[i] - 1) % n) + 1]]

CardIdsOf(cards) == [i \in 1..Len(cards) |-> cards[i].id]

\* optimisticColumns || baseColumns
Displayed == IF optimistic # None THEN optimistic[1] ELSE base

\* ------------------------------------------------------------------- Init
Init ==
    /\ mode \in {"single", "multi"}
    /\ canExecute = TRUE
    /\ sinkFails = "none"
    /\ budget = MaxEvents
    /\ data = InitialData(mode)
    /\ base = BuildTree(mode, data, {}, {})
    /\ optimistic = None
    /\ timer = None
    /\ age = 0
    /\ dirty = FALSE
    /\ cardsUsingCache = {}
    /\ cachedCardContent = {}
    /\ cacheTimer = None
    /\ boardCacheTimer = None
    /\ cacheEffectDue = FALSE
    /\ changeJSON = None
    /\ sortOrderJSON = None
    /\ dropCount = 0
    /\ execCount = 0
    /\ active = None
    /\ over = None
    /\ activeItem = None
    /\ activeColumnId = None
    /\ dragOverInfo = None
    /\ raf = <<>>

\* ------------------------------------------------------ render and effects
optimisticMatches(m, opt, b) ==
    IF m = "single" THEN SingleBoard_optimisticMatches(opt, b)
    ELSE MultiBoard_optimisticMatches(opt, b)

\* "Additional effect to clear cache when real content is available":
\* the ids of cardsUsingCache that some card record carries
CardsWithRealContent(d, usingCache) ==
    {cardId \in usingCache :
        \E i \in 1..Len(d.cards) : d.cards[i].id # None /\ d.cards[i].id[1] = cardId}

\* an effect without cleanup: a timer that is already armed keeps running
\* and no second one is set
fallbackTimerKept(pending) ==
    IF pending = None THEN None
    ELSE IF timer # None THEN timer ELSE Some(Timeout)

\* the timer of the reconciliation effect after a render: the cleanup of the
\* previous run has cleared the old timer (return () => clearTimeout(timer)),
\* and a new one is set when the pending tree was not matched
fallbackTimer(pending) == IF pending # None THEN Some(Timeout) ELSE None

\* a cache timer that every render would set again
cacheTimerEveryRender ==
    IF cardsUsingCache # {} THEN Some(CacheTimeout) ELSE None

\* the timer of the cache hook's fallback effect after a render. Its
\* dependencies are [cardsUsingCache, clearCardCache]: the effect runs again,
\* clearing the timer it had set, only when cardsUsingCache is a new Set; a
\* render that leaves the Set alone leaves the timer running.
cacheTimerAfterRender ==
    IF cacheEffectDue
    THEN IF cardsUsingCache # {} THEN Some(CacheTimeout) ELSE None
    ELSE cacheTimer

\* the timer of the multi-board cache effect after a render. baseBoards is
\* among its dependencies and is a new array at every render, so every render
\* clears the timer and sets a new one while cards are shown from the cache.
boardCacheTimerAfterRender ==
    IF mode = "multi" /\ cardsUsingCache # {} THEN Some(BoardCacheTimeout) ELSE None

\* One render of the board component followed by its effects: the tree is
\* rebuilt, the previous fallback timer is cleared by the effect cleanup, and
\* the reconciliation effect either discards the pending tree or arms a timer.
Render ==
    /\ dirty
    /\ base' = BuildTree(mode, data, cardsUsingCache, cachedCardContent)
    /\ optimistic' = IF optimistic # None /\ optimisticMatches(mode, optimistic[1], base')
                     THEN None ELSE optimistic
    /\ timer' = fallbackTimer(optimistic')
    /\ age' = IF optimistic' = None THEN 0 ELSE age
    /\ cacheTimer' = cacheTimerAfterRender
    /\ boardCacheTimer' = boardCacheTimerAfterRender
    /\ LET matches == optimistic # None /\ optimistic' = None
           real == CardsWithRealContent(data, cardsUsingCache)
           cleared == IF matches THEN cardsUsingCache ELSE real
       IN /\ cardsUsingCache' = cardsUsingCache \ cleared
          /\ cachedCardContent' = cachedCardContent \ cleared
          /\ cacheEffectDue' = (cleared # {})
          /\ dirty' = (matches \/ real # {})
    /\ UNCHANGED <<envVars, data, budget, sinkVars, dragVars>>

\* the fallback timer fires: the pending tree is discarded regardless
TimerFire ==
    /\ ~dirty
    /\ timer = Some(0)
    /\ optimistic' = None
    /\ timer' = None
    /\ age' = 0
    /\ cachedCardContent' = cachedCardContent \ cardsUsingCache
    /\ cardsUsingCache' = {}
    /\ cacheEffectDue' = (cacheEffectDue \/ cardsUsingCache # {})
    /\ dirty' = TRUE
    /\ UNCHANGED <<envVars, data, budget, base, cacheTimer, boardCacheTimer, sinkVars,
                   dragVars>>

\* clearCardCache, called for each id of cardsUsingCache by a cache timer: the
\* id leaves the content map and the using-cache set
clearedByCacheTimer ==
    /\ cachedCardContent' = cachedCardContent \ cardsUsingCache
    /\ cardsUsingCache' = {}
    /\ cacheEffectDue' = TRUE
    /\ dirty' = TRUE

\* the 3000 ms timer of the cache hook fires
CacheTimerFire ==
    /\ ~dirty
    /\ cacheTimer = Some(0)
    /\ clearedByCacheTimer
    /\ cacheTimer' = None
    /\ UNCHANGED <<envVars, data, budget, base, optimistic, timer, age, boardCacheTimer,
                   sinkVars, dragVars>>

\* the 1000 ms timer of the multi-board cache effect fires
BoardCacheTimerFire ==
    /\ ~dirty
    /\ boardCacheTimer = Some(0)
    /\ clearedByCacheTimer
    /\ boardCacheTimer' = None
    /\ UNCHANGED <<envVars, data, budget, base, optimistic, timer, age, cacheTimer,
                   sinkVars, dragVars>>

\* a timer one tick later
Elapse(t) == IF t = None THEN None ELSE Some(t[1] - 1)

\* 1000 ms pass; a due timer fires before time moves on
Tick ==
    /\ ~dirty
    /\ {timer, cacheTimer, boardCacheTimer} # {None}
    /\ Some(0) \notin {timer, cacheTimer, boardCacheTimer}
    /\ timer' = Elapse(timer)
    /\ cacheTimer' = Elapse(cacheTimer)
    /\ boardCacheTimer' = Elapse(boardCacheTimer)
    /\ age' = IF optimistic # None THEN Min(age + 1, Timeout + 1) ELSE age
    /\ UNCHANGED <<envVars, data, budget, base, optimistic, dirty, cardsUsingCache,
                   cachedCardContent, cacheEffectDue, sinkVars, dragVars>>

\* ------------------------------------------------------ move commit pipeline
performOptimisticCardMove(m, tree, cardId, sourceColumnId, targetColumnId, newIndex) ==
    IF m = "single"
    THEN SingleBoard_performOptimisticCardMove(tree, cardId, sourceColumnId,
                                               targetColumnId, newIndex)
    ELSE MultiBoard_performOptimisticCardMove(tree, cardId, sourceColumnId,
                                              targetColumnId, newIndex)

\* order values that count from one
sortOrderDataFromOne(cards) == [i \in 1..Len(cards) |-> [cardId |-> cards[i].id, order |-> i]]

\* targetColumn.cards.map((card, index) => ({cardId: card.id, order: index}))
sortOrderData(cards) == [i \in 1..Len(cards) |-> [cardId |-> cards[i].id, order |-> i - 1]]

\* newColumns.find(col => col.id === targetColumnId); in multi-board mode the
\* first board that has such a column decides
FindTargetColumn(m, tree, targetColumnId) ==
    LET flat == FlatColumns(m, tree)
        i == FindIndexById(flat, targetColumnId)
    IN IF i = 0 THEN None ELSE Some(flat[i])

\* a try block that ends after the first write: only a failing change
\* payload is caught
ThrownByChangeOnly(targetFound) == IF sinkFails = "change" THEN "change" ELSE "none"

\* which statement of the try block throws, if any: a sink throws only when
\* it is called
Thrown(targetFound) ==
    CASE sinkFails = "change" -> "change"
      [] sinkFails = "order" /\ targetFound -> "order"
      [] sinkFails = "execute" /\ canExecute -> "execute"
      [] OTHER -> "none"

\* document.querySelector(`[data-card-id="${cardId}"]`): the card is rendered
CardElementExists(m, tree, cardId) ==
    \E i \in 1..Len(FlatColumns(m, tree)) :
        \E j \in 1..Len(FlatColumns(m, tree)[i].cards) :
            FlatColumns(m, tree)[i].cards[j].id = cardId

\* a handler that always starts from the authoritative tree
currentColumnsFromBase == base

\* const currentColumns = optimisticColumns || baseColumns (currentBoards in
\* MultiBoard.tsx): the tree the handler applies the move to
currentColumns == IF optimistic # None THEN optimistic[1] ELSE base

\* SingleBoard.tsx / MultiBoard.tsx handleCardDrop
handleCardDrop(cardId, sourceColumnId, targetColumnId, newIndex) ==
    LET current == currentColumns
        newTree == performOptimisticCardMove(mode, current, cardId, sourceColumnId,
                                             targetColumnId, newIndex)
        targetColumn == FindTargetColumn(mode, newTree, targetColumnId)
        thrown == Thrown(targetColumn # None)
        changeData == [cardId |-> cardId, oldParentColumnId |-> sourceColumnId,
                       newParentColumnId |-> targetColumnId]
    IN /\ optimistic' = IF thrown # "none" THEN None ELSE Some(newTree)
       /\ cardsUsingCache' = IF thrown # "none" THEN cardsUsingCache \ {cardId}
                             ELSE cardsUsingCache \cup {cardId}
       /\ cachedCardContent' =
             IF thrown # "none" THEN cachedCardContent \ {cardId}
             ELSE IF CardElementExists(mode, current, cardId)
                  THEN cachedCardContent \cup {cardId}
                  ELSE cachedCardContent
       /\ changeJSON' = IF thrown = "change" THEN changeJSON ELSE Some(changeData)
       /\ sortOrderJSON' = IF thrown \in {"change", "order"} \/ targetColumn = None
                           THEN sortOrderJSON
                           ELSE Some(sortOrderData(targetColumn[1].cards))
       /\ execCount' = IF thrown = "none" /\ canExecute THEN execCount + 1 ELSE execCount
       /\ dropCount' = dropCount + 1
       /\ budget' = budget - 1
       /\ age' = 0
       /\ cacheEffectDue' = TRUE
       /\ dirty' = TRUE
       /\ UNCHANGED <<base, timer, cacheTimer, boardCacheTimer>>

\* --------------------------------------------------- drag session tracker
CardTarget(id) == [type |-> "card", id |-> id]
ColumnTarget(id) == [type |-> "column", id |-> id]
\* a droppable whose data names neither a card nor a column
OtherTarget(id) == [type |-> "other", id |-> id]

\* the droppables the rendered tree registers with the drag library
Targets(m, tree) ==
    LET flat == FlatColumns(m, tree)
    IN {ColumnTarget(flat[i].id) : i \in 1..Len(flat)}
       \cup UNION {{CardTarget(flat[i].cards[j].id) : j \in 1..Len(flat[i].cards)} :
                    i \in 1..Len(flat)}

\* targets the displayed tree does not account for: a droppable of another
\* kind, with or without a column-like id, and a card droppable whose card
\* is in no column of the tree
ForeignTargets(m, tree) ==
    {OtherTarget("zone"), OtherTarget("column-B")}
    \cup {CardTarget(c) : c \in {x \in CardIds \cup {"c4"} :
                                   ~\E t \in Targets(m, tree) : t = CardTarget(x)}}

\* over.id.toString().match(/column-(.+)/): the captured column id, if any
columnMatch(id) == IF id = "column-B" THEN Some("B") ELSE None

ContainsCard(column, cardId) == \E j \in 1..Len(column.cards) : column.cards[j].id = cardId

\* index of the first column that holds the card
FindColumnByCard(columns, cardId) ==
    FindIndex([k \in 1..Len(columns) |-> ContainsCard(columns[k], cardId)])

\* AdvancedKanbanBoard.tsx findCardAndColumn: the id of the first column that
\* holds the card
findCardAndColumn(columns, cardId) ==
    LET i == FindColumnByCard(columns, cardId)
    IN IF i = 0 THEN None ELSE Some(columns[i].id)

\* MultiBoardDragDrop.tsx: the nested loops that look for the column holding
\* a card.  Each board contributes its first such column; the search stops at
\* the first board whose column has a non-empty id.  Result: <<board, column>>.
ScanForCard(boards, cardId) ==
    LET Hit(b) == FindColumnByCard(boards[b].columns, cardId)
        stops == {b \in 1..Len(boards) :
                    Hit(b) # 0 /\ boards[b].columns[Hit(b)].id # ""}
    IN IF stops = {} THEN None
       ELSE LET b == CHOOSE x \in stops : \A y \in stops : x <= y
            IN Some(<<b, Hit(b)>>)

\* the move a drag end hands to onCardDrop
Move(cardId, sourceColumnId, targetColumnId, newIndex) ==
    [cardId |-> cardId, sourceColumnId |-> sourceColumnId,
     targetColumnId |-> targetColumnId, newIndex |-> newIndex]

\* AdvancedKanbanBoard.tsx handleDragEnd, after the abort check: the emitted
\* move, or None
AdvancedKanbanBoard_resolveDrop(columns, activeId, activeCol, overTarget) ==
    LET overResult == IF overTarget.type = "card"
                      THEN findCardAndColumn(columns, overTarget.id) ELSE None
        targetColumnId ==
            IF overTarget.type = "card"
            THEN (IF overResult # None THEN overResult[1] ELSE activeCol)
            ELSE IF overTarget.type = "column" THEN overTarget.id
            ELSE IF columnMatch(overTarget.id) # None THEN columnMatch(overTarget.id)[1]
            ELSE activeCol
        ti == FindIndexById(columns, targetColumnId)
        targetIndex == FindIndexById(columns[ti].cards, overTarget.id) - 1
        newIndex ==
            IF overTarget.type = "card" /\ overResult # None /\ ti # 0
            THEN (IF targetColumnId = activeCol THEN Some(targetIndex)
                  ELSE Some(targetIndex + 1))
            ELSE None
    IN IF targetColumnId # activeCol \/ (newIndex # None /\ newIndex[1] >= 0)
       THEN Some(Move(activeId, activeCol, targetColumnId, newIndex))
       ELSE None

\* MultiBoardDragDrop.tsx handleDragEnd, after the abort check
MultiBoardDragDrop_resolveDrop(boards, draggedCardId, overTarget) ==
    LET src == ScanForCard(boards, draggedCardId)
        sourceColumnId == IF src = None THEN ""
                          ELSE boards[src[1][1]].columns[src[1][2]].id
        tgt == IF overTarget.type = "card" THEN ScanForCard(boards, overTarget.id) ELSE None
        targetColumnId ==
            IF overTarget.type = "column" THEN overTarget.id
            ELSE IF tgt = None THEN ""
            ELSE boards[tgt[1][1]].columns[tgt[1][2]].id
        cardIndex ==
            IF tgt = None THEN 0
            ELSE FindIndexById(boards[tgt[1][1]].columns[tgt[1][2]].cards, overTarget.id) - 1
        newIndex ==
            IF tgt = None THEN None
            ELSE IF sourceColumnId = targetColumnId THEN Some(cardIndex)
            ELSE Some(cardIndex + 1)
        flat == FlatColumns("multi", boards)
        si == FindIndexById(flat, sourceColumnId)
        currentIndex ==
            IF si = 0 THEN -1
            ELSE FindIndexById(flat[si].cards, draggedCardId) - 1
    IN IF sourceColumnId = "" \/ targetColumnId = "" THEN None
       ELSE IF sourceColumnId # targetColumnId
       THEN Some(Move(draggedCardId, sourceColumnId, targetColumnId, newIndex))
       ELSE IF newIndex # None /\ currentIndex # -1 /\ currentIndex # newIndex[1]
       THEN Some(Move(draggedCardId, sourceColumnId, targetColumnId, newIndex))
       ELSE None

RafStart(cardId, columnId) == [kind |-> "start", card |-> cardId, columnId |-> columnId]
RafEnd == [kind |-> "end", card |-> None, columnId |-> None]

\* onDragStart: the pointer picked up a rendered card
DragStart(c) ==
    /\ ~dirty
    /\ active = None
    /\ budget > 0
    /\ Len(raf) + 2 <= MaxRaf
    /\ CardTarget(c) \in Targets(mode, Displayed)
    /\ active' = Some(c)
    /\ over' = None
    /\ dragOverInfo' = None
    /\ raf' = IF mode = "single"
              THEN (LET result == findCardAndColumn(Displayed, c)
                    IN IF result # None THEN Append(raf, RafStart(Some(c), result))
                       ELSE raf)
              ELSE Append(raf, RafStart(Some(c), None))
    /\ UNCHANGED <<envVars, data, budget, storeVars, sinkVars, activeItem, activeColumnId>>

\* AdvancedKanbanBoard.tsx handleDragOver
AdvancedKanbanBoard_hover(columns, activeCol, overTarget) ==
    IF overTarget = None \/ activeCol = None THEN None
    ELSE IF overTarget[1].type = "column"
    THEN (IF activeCol[1] # overTarget[1].id
          THEN Some([columnId |-> overTarget[1].id, cardId |-> None, position |-> None])
          ELSE None)
    ELSE IF overTarget[1].type # "card" THEN None
    ELSE LET result == findCardAndColumn(columns, overTarget[1].id)
         IN IF result # None /\ activeCol[1] # result[1]
            THEN Some([columnId |-> result[1], cardId |-> Some(overTarget[1].id),
                       position |-> Some("after")])
            ELSE None

\* MultiBoardDragDrop.tsx handleDragOver; a card target found in no column
\* leaves the annotation as it was
MultiBoardDragDrop_hover(boards, draggedCardId, overTarget, previous) ==
    IF overTarget = None THEN None
    ELSE LET src == ScanForCard(boards, draggedCardId)
             sourceColumnId == IF src = None THEN ""
                               ELSE boards[src[1][1]].columns[src[1][2]].id
         IN IF overTarget[1].type = "column"
            THEN (IF sourceColumnId # overTarget[1].id
                  THEN Some([columnId |-> overTarget[1].id, cardId |-> None,
                             position |-> None])
                  ELSE None)
            ELSE IF overTarget[1].type # "card" THEN None
            ELSE LET Hit(b) == FindColumnByCard(boards[b].columns, overTarget[1].id)
                     hits == {b \in 1..Len(boards) : Hit(b) # 0}
                 IN IF hits = {} THEN previous
                    ELSE LET b == CHOOSE x \in hits : \A y \in hits : y <= x
                             columnId == boards[b].columns[Hit(b)].id
                         IN IF sourceColumnId # columnId
                            THEN Some([columnId |-> columnId,
                                       cardId |-> Some(overTarget[1].id),
                                       position |-> Some("after")])
                            ELSE None

\* onDragOver: the droppable under the pointer changed
DragOver(o) ==
    /\ ~dirty
    /\ active # None
    /\ o # over
    /\ IF o = None THEN TRUE
       ELSE o[1] \in Targets(mode, Displayed) \cup ForeignTargets(mode, Displayed)
    /\ over' = o
    /\ dragOverInfo' =
          IF mode = "single"
          THEN AdvancedKanbanBoard_hover(Displayed, activeColumnId, o)
          ELSE MultiBoardDragDrop_hover(Displayed, active[1], o, dragOverInfo)
    /\ UNCHANGED <<envVars, data, budget, storeVars, sinkVars, active, activeItem,
                   activeColumnId, raf>>

\* has handleDragEnd returned early, before resolving a target?
DragEndAborts ==
    IF mode = "single" THEN over = None \/ activeItem = None \/ activeColumnId = None
    ELSE over = None

\* a drop resolution without the early return for a missing target: the
\* drop counts as one on column B
ResolvedMoveWithoutAbort ==
    LET target == IF over = None THEN ColumnTarget("B") ELSE over[1]
    IN IF mode = "single"
       THEN (IF activeItem = None \/ activeColumnId = None THEN None
             ELSE AdvancedKanbanBoard_resolveDrop(Displayed, active[1], activeColumnId[1],
                                                  target))
       ELSE MultiBoardDragDrop_resolveDrop(Displayed, active[1], target)

\* the move handleDragEnd emits in the current state, or None
ResolvedMove ==
    IF DragEndAborts THEN None
    ELSE IF mode = "single"
    THEN AdvancedKanbanBoard_resolveDrop(Displayed, active[1], activeColumnId[1], over[1])
    ELSE MultiBoardDragDrop_resolveDrop(Displayed, active[1], over[1])

\* onDragEnd: the pointer was released
DragEnd ==
    /\ ~dirty
    /\ active # None
    /\ LET move == ResolvedMove
       IN IF move = None
          THEN UNCHANGED <<storeVars, sinkVars, budget>>
          ELSE handleCardDrop(move[1].cardId, move[1].sourceColumnId,
                              move[1].targetColumnId, move[1].newIndex)
    /\ active' = None
    /\ over' = None
    /\ IF mode = "single" /\ DragEndAborts
       THEN /\ activeItem' = None
            /\ activeColumnId' = None
            /\ dragOverInfo' = None
            /\ raf' = raf
       ELSE /\ raf' = Append(raf, RafEnd)
            /\ UNCHANGED <<activeItem, activeColumnId, dragOverInfo>>
    /\ UNCHANGED <<envVars, data>>

\* a requestAnimationFrame callback runs
RunRaf ==
    /\ raf # <<>>
    /\ raf' = Tail(raf)
    /\ IF Head(raf).kind = "start"
       THEN /\ activeItem' = Head(raf).card
            /\ activeColumnId' = IF mode = "single" THEN Head(raf).columnId
                                 ELSE activeColumnId
            /\ dragOverInfo' = dragOverInfo
       ELSE /\ activeItem' = None
            /\ activeColumnId' = None
            /\ dragOverInfo' = None
    /\ UNCHANGED <<envVars, data, budget, storeVars, sinkVars, active, over>>

\* ---------------------------------------------------------- data source
\* the data source delivers its items again, unchanged (a stale rebuild)
DataRefresh ==
    /\ ~dirty
    /\ optimistic # None
    /\ dirty' = TRUE
    /\ UNCHANGED <<envVars, data, budget, base, optimistic, timer, age, cardsUsingCache,
                   cachedCardContent, cacheVars, sinkVars, dragVars>>

\* the order the payload gives a card, or the one it had
OrderOf(payload, cardId, old) ==
    LET i == FindIndex([k \in 1..Len(payload) |-> payload[k].cardId = cardId])
    IN IF i = 0 THEN old ELSE Some(payload[i].order)

\* the microflow of the implementation guide: the card of changeJSON gets its
\* new parent column and the cards of sortOrderJSON get their order
Persisted(d) ==
    LET change == changeJSON[1]
        order == IF sortOrderJSON = None THEN <<>> ELSE sortOrderJSON[1]
    IN [d EXCEPT !.cards =
          [i \in 1..Len(d.cards) |->
              LET r == d.cards[i]
                  id == StrOrEmpty(r.id)
              IN [r EXCEPT !.parent = IF id = change.cardId
                                      THEN Some(change.newParentColumnId) ELSE @,
                           !.sort = OrderOf(order, id, @)]]]

ExternalPersist ==
    /\ ~dirty
    /\ changeJSON # None
    /\ Persisted(data) # data
    /\ data' = Persisted(data)
    /\ dirty' = TRUE
    /\ UNCHANGED <<envVars, budget, base, optimistic, timer, age, cardsUsingCache,
                   cachedCardContent, cacheVars, sinkVars, dragVars>>

EditKinds == {"removeCard", "addCard", "addColumn", "duplicateColumn", "loading"}

\* a list holds an object once: appending one that is there changes nothing
WithRecord(recs, r) ==
    IF \E i \in 1..Len(recs) : recs[i].guid = r.guid THEN recs ELSE Append(recs, r)

Edited(m, d, kind) ==
    CASE kind = "removeCard" ->
           [d EXCEPT !.cards = SelectSeq(@, LAMBDA r : r.id # Some("c2"))]
      [] kind = "addCard" ->
           [d EXCEPT !.cards = WithRecord(@, Rec("card4", Some("c4"), Some("A"), Some(0)))]
      [] kind = "addColumn" ->
           [d EXCEPT !.columns =
              WithRecord(@, Rec("colC", Some("C"),
                                IF m = "single" THEN None ELSE Some("b1"), Some(2)))]
      [] kind = "duplicateColumn" ->
           [d EXCEPT !.columns =
              WithRecord(@, Rec("colA2", Some("A"),
                                IF m = "single" THEN None ELSE Some("b2"), Some(1)))]
      [] OTHER -> [d EXCEPT !.status = "loading"]

\* someone else changes the data source (a drag in progress keeps the budget
\* of its own commit)
ExternalEdit(kind) ==
    /\ ~dirty
    /\ budget > (IF active # None THEN 1 ELSE 0)
    /\ kind = "duplicateColumn" => mode = "multi"
    /\ Edited(mode, data, kind) # data
    /\ data' = Edited(mode, data, kind)
    /\ budget' = budget - 1
    /\ dirty' = TRUE
    /\ UNCHANGED <<envVars, base, optimistic, timer, age, cardsUsingCache,
                   cachedCardContent, cacheVars, sinkVars, dragVars>>

\* The events of the board. A card stays marked as shown from the cache after
\* a render only when its record is gone and the pending tree is not matched,
\* which takes three committed moves or foreign edits: the callbacks of the
\* cache timers are followed in CacheSpec, which allows that many.
Next ==
    \/ Render
    \/ TimerFire
    \/ Tick
    \/ \E c \in CardIds \cup {"c4"} : DragStart(c)
    \/ \E o \in {None} \cup {Some(t) : t \in Targets(mode, Displayed)
                                           \cup ForeignTargets(mode, Displayed)} :
          DragOver(o)
    \/ DragEnd
    \/ RunRaf
    \/ DataRefresh
    \/ ExternalPersist
    \/ \E kind \in EditKinds : ExternalEdit(kind)

Spec == Init /\ [][Next]_vars

\* an environment whose sinks may throw and whose action may not be executable
EnvInit ==
    /\ mode \in {"single", "multi"}
    /\ canExecute \in BOOLEAN
    /\ sinkFails \in {"none", "change", "order", "execute"}
    /\ budget = MaxEnvEvents
    /\ data = InitialData(mode)
    /\ base = BuildTree(mode, data, {}, {})
    /\ optimistic = None
    /\ timer = None
    /\ age = 0
    /\ dirty = FALSE
    /\ cardsUsingCache = {}
    /\ cachedCardContent = {}
    /\ cacheTimer = None
    /\ boardCacheTimer = None
    /\ cacheEffectDue = FALSE
    /\ changeJSON = None
    /\ sortOrderJSON = None
    /\ dropCount = 0
    /\ execCount = 0
    /\ active = None
    /\ over = None
    /\ activeItem = None
    /\ activeColumnId = None
    /\ dragOverInfo = None
    /\ raf = <<>>

EnvSpec == EnvInit /\ [][Next]_vars

\* the board of Spec with the event budget of EnvSpec
FairInit == EnvInit /\ canExecute = TRUE /\ sinkFails = "none"

\* A due render happens; time keeps passing whenever it can (no infinite run
\* of renders in zero time); a timer that is due again and again fires.
\* Nothing is assumed about the user or the data source.
FairSpec ==
    FairInit /\ [][Next]_vars /\ WF_vars(Render) /\ SF_vars(Tick) /\ SF_vars(TimerFire)

\* ------------------------------------------------------ presentation cache
\* The board with its cache timers, followed long enough for a card to stay
\* marked after a render: a first move leaves a pending tree, the record of
\* another card is deleted, and that card is moved on the pending tree. The
\* user picks up c1 or c2 and drops it on column B.
CacheInit ==
    /\ mode \in {"single", "multi"}
    /\ canExecute = TRUE
    /\ sinkFails = "none"
    /\ budget = MaxCacheEvents
    /\ data = InitialData(mode)
    /\ base = BuildTree(mode, data, {}, {})
    /\ optimistic = None
    /\ timer = None
    /\ age = 0
    /\ dirty = FALSE
    /\ cardsUsingCache = {}
    /\ cachedCardContent = {}
    /\ cacheTimer = None
    /\ boardCacheTimer = None
    /\ cacheEffectDue = FALSE
    /\ changeJSON = None
    /\ sortOrderJSON = None
    /\ dropCount = 0
    /\ execCount = 0
    /\ active = None
    /\ over = None
    /\ activeItem = None
    /\ activeColumnId = None
    /\ dragOverInfo = None
    /\ raf = <<>>

CacheNext ==
    \/ Render
    \/ TimerFire
    \/ CacheTimerFire
    \/ BoardCacheTimerFire
    \/ Tick
    \/ \E c \in {"c1", "c2"} : DragStart(c)
    \/ DragOver(Some(ColumnTarget("B")))
    \/ DragEnd
    \/ RunRaf
    \/ DataRefresh
    \/ ExternalPersist
    \/ ExternalEdit("removeCard")

CacheSpec == CacheInit /\ [][CacheNext]_vars

\* WF_vars(Render), with ENABLED <<Render>>_vars written out: a render is
\* possible exactly when one is due, and every render changes the state (it
\* either settles the board or drops a pending tree or a cache mark)
RenderIsFair == []<>(~dirty) \/ []<><<Render>>_vars

\* A due render happens; time keeps passing whenever it can; a timer that is
\* due again and again fires. The budget of CacheInit ends the commits.
\* Nothing is assumed about the user or the data source.
CacheFairSpec ==
    /\ CacheInit
    /\ [][CacheNext]_vars
    /\ RenderIsFair
    /\ SF_vars(Tick)
    /\ SF_vars(TimerFire)
    /\ SF_vars(CacheTimerFire)
    /\ SF_vars(BoardCacheTimerFire)

\* ------------------------------------------------------ failing sinks
\* The sinks are widget properties (changeJSON, sortOrderJSON, onCardDrop):
\* the host may hand the widget other values at any render, so a sink that
\* used to accept a value may throw from then on.
SinkFailures == {"change", "order", "execute"}

\* the properties change: from now on the sink f throws when it is called
SinkBreaks(f) ==
    /\ ~dirty
    /\ sinkFails = "none"
    /\ sinkFails' = f
    /\ dirty' = TRUE
    /\ UNCHANGED <<mode, canExecute, data, budget, base, optimistic, timer, age,
                   cardsUsingCache, cachedCardContent, cacheVars, sinkVars, dragVars>>

\* the board of Spec, with an action that may not be executable
SinkInit ==
    /\ mode \in {"single", "multi"}
    /\ canExecute \in BOOLEAN
    /\ sinkFails = "none"
    /\ budget = MaxEvents
    /\ data = InitialData(mode)
    /\ base = BuildTree(mode, data, {}, {})
    /\ optimistic = None
    /\ timer = None
    /\ age = 0
    /\ dirty = FALSE
    /\ cardsUsingCache = {}
    /\ cachedCardContent = {}
    /\ cacheTimer = None
    /\ boardCacheTimer = None
    /\ cacheEffectDue = FALSE
    /\ changeJSON = None
    /\ sortOrderJSON = None
    /\ dropCount = 0
    /\ execCount = 0
    /\ active = None
    /\ over = None
    /\ activeItem = None
    /\ activeColumnId = None
    /\ dragOverInfo = None
    /\ raf = <<>>

SinkNext ==
    \/ Render
    \/ TimerFire
    \/ Tick
    \/ \E c \in CardIds \cup {"c4"} : DragStart(c)
    \/ \E o \in {None} \cup {Some(t) : t \in Targets(mode, Displayed)
                                           \cup ForeignTargets(mode, Displayed)} :
          DragOver(o)
    \/ DragEnd
    \/ RunRaf
    \/ DataRefresh
    \/ ExternalPersist
    \/ \E f \in SinkFailures : SinkBreaks(f)

SinkSpec == SinkInit /\ [][SinkNext]_vars

\* ------------------------------------------------------- function harness
\* The builder and the move function applied to bounded inputs: every record
\* set below is rendered once, then performOptimisticCardMove is applied to
\* the displayed tree with arbitrary arguments.
SortOptions == {None} \cup {Some(k) : k \in 0..MaxSort}

HarnessColumnIds == {"A", "B", "C"}

HarnessColumns(m, sortB, sortA, sortC) ==
    IF m = "single"
    THEN <<Rec("colB", Some("B"), None, sortB), Rec("colA", Some("A"), None, sortA),
           Rec("colC", Some("C"), None, sortC)>>
    ELSE <<Rec("colB", Some("B"), Some("b2"), sortB), Rec("colA", Some("A"), Some("b1"), sortA),
           Rec("colC", Some("C"), Some("b2"), sortC)>>

HarnessBoards(m, sort2, sort1) ==
    IF m = "single" THEN <<>>
    ELSE <<Rec("board2", Some("b2"), None, sort2), Rec("board1", Some("b1"), None, sort1)>>

\* card records in input order c1, c2, c3 with any parent and any sort key
HarnessCardSets ==
    {<<Rec("card1", Some("c1"), p[1], k[1]), Rec("card2", Some("c2"), p[2], k[2]),
       Rec("card3", Some("c3"), p[3], k[3])>> :
        p \in [1..3 -> {Some("A"), Some("B"), None}], k \in [1..3 -> SortOptions]}

\* records with missing ids and parents: a board and a column without id,
\* a column of no board, a card without id, a card without parent and a
\* card of no column
HarnessIncomplete(m) ==
    [status |-> "available",
     boards |-> IF m = "single" THEN <<>>
                ELSE <<Rec("board2", None, None, Some(1)), Rec("board1", Some("b1"), None, None)>>,
     columns |-> <<Rec("colB", None, None, Some(1)),
                   Rec("colA", Some("A"), IF m = "single" THEN None ELSE Some("b1"), Some(0)),
                   Rec("colC", Some("C"), IF m = "single" THEN None ELSE Some("b3"), Some(1))>>,
     cards |-> <<Rec("card1", None, Some("A"), Some(1)),
                 Rec("card2", Some("c2"), None, Some(0)),
                 Rec("card3", Some("c3"), Some("D"), None),
                 Rec("card4", Some("c1"), Some("A"), Some(0))>>]

HarnessData(m) ==
    {[status |-> "available", boards |-> HarnessBoards(m, Some(1), None),
      columns |-> HarnessColumns(m, Some(1), Some(0), Some(1)), cards |-> cs] :
        cs \in HarnessCardSets}
    \cup
    {[status |-> "available", boards |-> HarnessBoards(m, k[4], k[5]),
      columns |-> HarnessColumns(m, k[1], k[2], k[3]), cards |-> CardRecs] :
        k \in [1..5 -> SortOptions]}
    \cup
    {[status |-> "loading", boards |-> BoardRecs(m), columns |-> ColumnRecs(m),
      cards |-> CardRecs]}
    \cup
    {HarnessIncomplete(m)}

HarnessInit ==
    /\ mode \in {"single", "multi"}
    /\ canExecute = TRUE
    /\ sinkFails = "none"
    /\ budget = MaxMoves
    /\ data \in HarnessData(mode)
    /\ base = <<>>
    /\ optimistic = None
    /\ timer = None
    /\ age = 0
    /\ dirty = TRUE
    /\ cardsUsingCache = {}
    /\ cachedCardContent = {}
    /\ cacheTimer = None
    /\ boardCacheTimer = None
    /\ cacheEffectDue = FALSE
    /\ changeJSON = None
    /\ sortOrderJSON = None
    /\ dropCount = 0
    /\ execCount = 0
    /\ active = None
    /\ over = None
    /\ activeItem = None
    /\ activeColumnId = None
    /\ dragOverInfo = None
    /\ raf = <<>>

\* setOptimistic(performOptimisticCardMove(displayed, ...)) with free arguments
HarnessMove(cardId, sourceColumnId, targetColumnId, newIndex) ==
    /\ ~dirty
    /\ budget > 0
    /\ budget' = budget - 1
    /\ optimistic' = Some(performOptimisticCardMove(mode, Displayed, cardId, sourceColumnId,
                                                    targetColumnId, newIndex))
    /\ UNCHANGED <<envVars, data, base, timer, age, dirty, cardsUsingCache,
                   cachedCardContent, cacheVars, sinkVars, dragVars>>

IndexOptions == {None} \cup {Some(i) : i \in 0..MaxIndex}

HarnessNext ==
    \/ Render
    \/ \E c \in CardIds \cup {"c4"}, s \in HarnessColumnIds \cup {"D"},
          t \in HarnessColumnIds \cup {"D"}, i \in IndexOptions : HarnessMove(c, s, t, i)

HarnessSpec == HarnessInit /\ [][HarnessNext]_vars

\* ------------------------------------------------- the shared drop hook
\* useCardDrop.ts: data.length > 0 && data[0].columns
isBoards(tree) == Len(tree) > 0 /\ "columns" \in DOMAIN tree[1]

\* useCardDrop.ts: the target column the hook finds in getColumnsOrBoards():
\* the first column with the id, of the first board that has one
useCardDrop_targetColumn(tree, targetColumnId) ==
    FindTargetColumn(IF isBoards(tree) THEN "multi" ELSE "single", tree, targetColumnId)

\* a card order that keeps the card where it was
cardOrderKeepingCard(cards, cardId, sourceColumnId, targetColumnId, newIndex) ==
    LET ids == CardIdsOf(cards)
    IN InsertAt(ids, insertIndex(newIndex, Len(ids)), cardId)

\* useCardDrop.ts: cardOrder, the ids of the target column, without the card
\* when it stays in its column, with the card spliced in at the insert index
cardOrder(cards, cardId, sourceColumnId, targetColumnId, newIndex) ==
    LET ids == CardIdsOf(cards)
        kept == IF sourceColumnId = targetColumnId
                THEN SelectSeq(ids, LAMBDA id : id # cardId) ELSE ids
    IN InsertAt(kept, insertIndex(newIndex, Len(kept)), cardId)

\* useCardDrop.ts: cardOrder.map((id, index) => ({cardId: id, order: index}))
useCardDrop_sortOrderData(ids) == [i \in 1..Len(ids) |-> [cardId |-> ids[i], order |-> i - 1]]

\* useCardDrop.ts handleCardDrop, with the displayed tree as the result of
\* getColumnsOrBoards(): the hook writes the payloads and runs the action,
\* and makes no pending tree
HookDrop(cardId, sourceColumnId, targetColumnId, newIndex) ==
    /\ ~dirty
    /\ budget > 0
    /\ LET targetColumn == useCardDrop_targetColumn(Displayed, targetColumnId)
           thrown == Thrown(targetColumn # None)
           changeData == [cardId |-> cardId, oldParentColumnId |-> sourceColumnId,
                          newParentColumnId |-> targetColumnId]
       IN /\ cardsUsingCache' = IF thrown # "none" THEN cardsUsingCache \ {cardId}
                                ELSE cardsUsingCache \cup {cardId}
          /\ cachedCardContent' =
                IF thrown # "none" THEN cachedCardContent \ {cardId}
                ELSE IF CardElementExists(mode, Displayed, cardId)
                     THEN cachedCardContent \cup {cardId}
                     ELSE cachedCardContent
          /\ changeJSON' = IF thrown = "change" THEN changeJSON ELSE Some(changeData)
          /\ sortOrderJSON' =
                IF thrown \in {"change", "order"} \/ targetColumn = None
                THEN sortOrderJSON
                ELSE Some(useCardDrop_sortOrderData(
                              cardOrder(targetColumn[1].cards, cardId, sourceColumnId,
                                        targetColumnId, newIndex)))
          /\ execCount' = IF thrown = "none" /\ canExecute THEN execCount + 1 ELSE execCount
    /\ dropCount' = dropCount + 1
    /\ budget' = budget - 1
    /\ cacheEffectDue' = TRUE
    /\ dirty' = TRUE
    /\ UNCHANGED <<envVars, data, base, optimistic, timer, age, cacheTimer, boardCacheTimer,
                   dragVars>>

\* card records c1, c2, c3 with any parent
HookCardSets ==
    {<<Rec("card1", Some("c1"), p[1], Some(0)), Rec("card2", Some("c2"), p[2], Some(1)),
       Rec("card3", Some("c3"), p[3], None)>> :
        p \in [1..3 -> {Some("A"), Some("B"), None}]}

\* the data sources of the hook harness; in multi-board mode one of them has
\* a column id that two boards use
HookData(m) ==
    {[status |-> "available", boards |-> HarnessBoards(m, Some(1), None),
      columns |-> HarnessColumns(m, Some(1), Some(0), Some(1)), cards |-> cs] :
        cs \in HookCardSets}
    \cup
    {HarnessIncomplete(m)}
    \cup
    (IF m = "multi" THEN {Edited(m, InitialData(m), "duplicateColumn")} ELSE {})

HookInit ==
    /\ mode \in {"single", "multi"}
    /\ canExecute = TRUE
    /\ sinkFails = "none"
    /\ budget = MaxHookDrops
    /\ data \in HookData(mode)
    /\ base = <<>>
    /\ optimistic = None
    /\ timer = None
    /\ age = 0
    /\ dirty = TRUE
    /\ cardsUsingCache = {}
    /\ cachedCardContent = {}
    /\ cacheTimer = None
    /\ boardCacheTimer = None
    /\ cacheEffectDue = FALSE
    /\ changeJSON = None
    /\ sortOrderJSON = None
    /\ dropCount = 0
    /\ execCount = 0
    /\ active = None
    /\ over = None
    /\ activeItem = None
    /\ activeColumnId = None
    /\ dragOverInfo = None
    /\ raf = <<>>

HookNext ==
    \/ Render
    \/ \E c \in CardIds \cup {"c4"}, s \in HarnessColumnIds \cup {"D"},
          t \in HarnessColumnIds \cup {"D"}, i \in IndexOptions : HookDrop(c, s, t, i)

HookSpec == HookInit /\ [][HookNext]_vars

\* ------------------------------------------------------------ vocabulary
\* the column id -> card id sequence view of a tree, in display order
ColumnCardIds(m, tree) ==
    LET flat == FlatColumns(m, tree)
    IN [i \in 1..Len(flat) |-> <<flat[i].id, CardIdsOf(flat[i].cards)>>]

\* the step is an onDragEnd
IsDragEnd == active # None /\ active' = None

\* the step called the board's onCardDrop
Emitted == dropCount' # dropCount

\* ------------------------------------------------------------------ C1
\* C1 (as claimed): a drag that ends over the dragged card itself, i.e. over
\* its own column and its own index, does not call onCardDrop and leaves the
\* displayed column -> card id sequences unchanged, in both board modes.
OwnPositionDrop ==
    /\ IsDragEnd
    /\ over = Some(CardTarget(active[1]))
    /\ CardTarget(active[1]) \in Targets(mode, Displayed)

C1_NoOpDropEmitsNothing ==
    [][OwnPositionDrop =>
          /\ ~Emitted
          /\ ColumnCardIds(mode, Displayed') = ColumnCardIds(mode, Displayed)]_vars

\* ------------------------------------------------------------ C2 and C3
\* positions, in display order, of the columns of a tree with this id
ColumnsNamed(m, tree, columnId) ==
    LET flat == FlatColumns(m, tree)
    IN {k \in 1..Len(flat) : flat[k].id = columnId}

\* no card id occurs twice in the tree
UniqueCardIds(m, tree) ==
    LET flat == FlatColumns(m, tree)
    IN \A k1, k2 \in 1..Len(flat) :
         \A j1 \in 1..Len(flat[k1].cards), j2 \in 1..Len(flat[k2].cards) :
            flat[k1].cards[j1].id = flat[k2].cards[j2].id => (k1 = k2 /\ j1 = j2)

\* a sequence of ids with one id left out
Without(ids, cardId) == SelectSeq(ids, LAMBDA x : x # cardId)

\* the card ids of the one column with this id
IdsOfColumn(m, tree, columnId) ==
    CardIdsOf(FlatColumns(m, tree)[CHOOSE k \in ColumnsNamed(m, tree, columnId) : TRUE].cards)

\* tree, card, columns a, b form a cross-column move of a card that is in a
CrossColumnCase(m, tree, cardId, a, b) ==
    /\ a # b
    /\ UniqueCardIds(m, tree)
    /\ Cardinality(ColumnsNamed(m, tree, a)) = 1
    /\ Cardinality(ColumnsNamed(m, tree, b)) = 1
    /\ cardId \in Range(IdsOfColumn(m, tree, a))

\* what C2 says of the result of moving the card from a to b at index i
CrossColumnResult(m, tree, result, cardId, a, b, i) ==
    LET before == ColumnCardIds(m, tree)
        after == ColumnCardIds(m, result)
    IN /\ Len(after) = Len(before)
       /\ \A k \in 1..Len(before) :
            /\ after[k][1] = before[k][1]
            /\ IF before[k][1] = a
               THEN after[k][2] = Without(before[k][2], cardId)
               ELSE IF before[k][1] = b
               THEN /\ Len(after[k][2]) = Len(before[k][2]) + 1
                    /\ after[k][2][Min(i, Len(before[k][2])) + 1] = cardId
                    /\ Without(after[k][2], cardId) = before[k][2]
               ELSE after[k][2] = before[k][2]

\* C2: for every tree with unique card ids, every card of a column A, every
\* other column B and every index i >= 0, applyMove yields a tree in which A
\* no longer holds the card, B is one longer and holds it at min(i, old length
\* of B) with its other cards in their old order, and every other column keeps
\* its card sequence.
C2_CrossColumnMove ==
    (~dirty /\ UniqueCardIds(mode, Displayed)) =>
        \A a \in HarnessColumnIds, b \in HarnessColumnIds :
            (/\ a # b
             /\ Cardinality(ColumnsNamed(mode, Displayed, a)) = 1
             /\ Cardinality(ColumnsNamed(mode, Displayed, b)) = 1) =>
                \A c \in Range(IdsOfColumn(mode, Displayed, a)), i \in 0..MaxIndex :
                    CrossColumnResult(mode, Displayed,
                        performOptimisticCardMove(mode, Displayed, c, a, b, Some(i)),
                        c, a, b, i)

\* a cross-column move with an index beyond the end of a non-empty target has
\* been applied to the authoritative tree
C2_Witness ==
    /\ ~dirty
    /\ optimistic # None
    /\ \E c \in CardIds, a \in HarnessColumnIds, b \in HarnessColumnIds, i \in 0..MaxIndex :
         /\ CrossColumnCase(mode, base, c, a, b)
         /\ IdsOfColumn(mode, base, b) # <<>>
         /\ i > Len(IdsOfColumn(mode, base, b))
         /\ optimistic[1] = performOptimisticCardMove(mode, base, c, a, b, Some(i))

\* tree, column a and indices i # j form a reorder inside a
SameColumnCase(m, tree, a, i, j) ==
    /\ UniqueCardIds(m, tree)
    /\ Cardinality(ColumnsNamed(m, tree, a)) = 1
    /\ i # j
    /\ i < Len(IdsOfColumn(m, tree, a))
    /\ j < Len(IdsOfColumn(m, tree, a))

\* what C3 says of the result of moving the card at index i of a to index j
SameColumnResult(m, tree, result, a, i, j) ==
    LET before == ColumnCardIds(m, tree)
        after == ColumnCardIds(m, result)
        cardId == IdsOfColumn(m, tree, a)[i + 1]
    IN /\ Len(after) = Len(before)
       /\ \A k \in 1..Len(before) :
            /\ after[k][1] = before[k][1]
            /\ IF before[k][1] = a
               THEN /\ Len(after[k][2]) = Len(before[k][2])
                    /\ after[k][2][j + 1] = cardId
                    /\ Without(after[k][2], cardId) = Without(before[k][2], cardId)
               ELSE after[k][2] = before[k][2]

\* C3: moving the card at index i of a column to a different valid index j
\* of the same column puts it at index j, keeps the relative order of the
\* column's other cards and the column's length, and leaves every other column
\* unchanged.
C3_SameColumnReorder ==
    (~dirty /\ UniqueCardIds(mode, Displayed)) =>
        \A a \in HarnessColumnIds :
            Cardinality(ColumnsNamed(mode, Displayed, a)) = 1 =>
                LET ids == IdsOfColumn(mode, Displayed, a)
                IN \A i \in 0..(Len(ids) - 1), j \in 0..(Len(ids) - 1) :
                      i # j =>
                        SameColumnResult(mode, Displayed,
                            performOptimisticCardMove(mode, Displayed, ids[i + 1], a, a,
                                                      Some(j)),
                            a, i, j)

\* a reorder inside a column of three cards, first card to the middle, has
\* been applied to the authoritative tree
C3_Witness ==
    /\ ~dirty
    /\ optimistic # None
    /\ \E a \in HarnessColumnIds :
         /\ SameColumnCase(mode, base, a, 0, 1)
         /\ Len(IdsOfColumn(mode, base, a)) = 3
         /\ optimistic[1] = performOptimisticCardMove(mode, base,
                                IdsOfColumn(mode, base, a)[1], a, a, Some(1))
         /\ optimistic[1] # base

\* ------------------------------------------------------------------ C8
\* the numeric key the claim gives a record: its sort value, 0 when missing
ClaimedKey(r) == IF r.sort = None THEN 0 ELSE r.sort[1]

\* input position of the record shown with this id, a missing id being the
\* empty string (ids are unique per list here)
InputById(recs, id) == CHOOSE i \in 1..Len(recs) : StrOrEmpty(recs[i].id) = id

\* input position of the record with this guid
InputByGuid(recs, g) == CHOOSE i \in 1..Len(recs) : recs[i].guid = g

\* output positions ascend by key, equal keys keep their input order
AscendingStable(recs, inputs) ==
    \A p, q \in 1..Len(inputs) :
        p < q =>
            \/ ClaimedKey(recs[inputs[p]]) < ClaimedKey(recs[inputs[q]])
            \/ /\ ClaimedKey(recs[inputs[p]]) = ClaimedKey(recs[inputs[q]])
               /\ inputs[p] < inputs[q]

CardsAscendingStable(column) ==
    AscendingStable(data.cards,
                    [j \in 1..Len(column.cards) |-> InputByGuid(data.cards, column.cards[j].item)])

ColumnsAscendingStable(columns) ==
    /\ AscendingStable(data.columns,
                       [k \in 1..Len(columns) |-> InputById(data.columns, columns[k].id)])
    /\ \A k \in 1..Len(columns) : CardsAscendingStable(columns[k])

\* C8: the tree a render builds has its boards, the columns of each board (or
\* of the widget) and the cards of each column in ascending order of their
\* numeric sort key, a missing key counting as 0 and equal keys keeping the
\* order of the input list.
C8_BuilderSortsStably ==
    ~dirty =>
        IF mode = "single" THEN ColumnsAscendingStable(base)
        ELSE /\ AscendingStable(data.boards,
                                [b \in 1..Len(base) |-> InputById(data.boards, base[b].id)])
             /\ \A b \in 1..Len(base) : ColumnsAscendingStable(base[b].columns)

\* a rendered column whose three cards came in the order key 1, no key,
\* key 0 and are shown as no key, key 0, key 1
C8_Witness ==
    /\ ~dirty
    /\ \E k \in 1..Len(FlatColumns(mode, base)) :
         /\ CardIdsOf(FlatColumns(mode, base)[k].cards) = <<"c2", "c3", "c1">>
         /\ data.cards[1].sort = Some(1)
         /\ data.cards[2].sort = None
         /\ data.cards[3].sort = Some(0)

\* ------------------------------------------------------------------ C4
\* the step is a render, whose effects run the reconciliation check: the
\* only step besides an animation-frame callback that a due render admits
IsRender == dirty /\ raf' = raf

\* every column of the pending tree has a same-id authoritative column with
\* the identical card id sequence
EveryPendingColumnMatched(m, pending, authoritative) ==
    LET pcs == FlatColumns(m, pending)
        acs == FlatColumns(m, authoritative)
    IN \A p \in 1..Len(pcs) :
          \E q \in 1..Len(acs) :
             /\ acs[q].id = pcs[p].id
             /\ CardIdsOf(acs[q].cards) = CardIdsOf(pcs[p].cards)

\* multi-board mode: every pending board has a same-id authoritative board
\* with as many columns, each of them matched by a same-id column of the
\* pending board with the identical card id sequence
EveryPendingBoardMatched(pending, authoritative) ==
    \A p \in 1..Len(pending) :
        \E q \in 1..Len(authoritative) :
           /\ authoritative[q].id = pending[p].id
           /\ Len(authoritative[q].columns) = Len(pending[p].columns)
           /\ \A c \in 1..Len(authoritative[q].columns) :
                 \E o \in 1..Len(pending[p].columns) :
                    /\ pending[p].columns[o].id = authoritative[q].columns[c].id
                    /\ CardIdsOf(pending[p].columns[o].cards) =
                           CardIdsOf(authoritative[q].columns[c].cards)

StructuralMatch(m, pending, authoritative) ==
    IF m = "single" THEN EveryPendingColumnMatched(m, pending, authoritative)
    ELSE EveryPendingBoardMatched(pending, authoritative)

\* C4 (as claimed): when a pending tree exists and the reconciliation check
\* runs against an authoritative tree in which every pending column has a
\* same-id column with the identical card id sequence, the pending tree is
\* discarded in that step and the displayed tree is the authoritative tree.
C4_DiscardWhenColumnsMatch ==
    [][(IsRender /\ optimistic # None
          /\ EveryPendingColumnMatched(mode, optimistic[1], base')) =>
            (optimistic' = None /\ Displayed' = base')]_vars

\* C4 (amended): the same, where in multi-board mode the match is per board:
\* every pending board has a same-id authoritative board with the same number
\* of columns, each matched by a same-id column of the pending board.
C4_DiscardWhenTreesMatch ==
    [][(IsRender /\ optimistic # None
          /\ StructuralMatch(mode, optimistic[1], base')) =>
            (optimistic' = None /\ Displayed' = base')]_vars

\* a render is due whose rebuilt tree matches a pending tree that differs
\* from the authoritative tree of the previous render
C4_Witness ==
    /\ dirty
    /\ optimistic # None
    /\ ColumnCardIds(mode, optimistic[1]) # ColumnCardIds(mode, base)
    /\ StructuralMatch(mode, optimistic[1],
                       BuildTree(mode, data, cardsUsingCache, cachedCardContent))

\* ------------------------------------------------------------ C5 and C6
\* C5 (as claimed): a pending tree that no rebuild has matched is gone once
\* 3000 ms have passed since the commit that created it, whatever rebuilds
\* and re-renders happen in between: no pending tree is older than Timeout.
C5_PendingGoneAfterTimeout == optimistic # None => age <= Timeout

\* C6 (as claimed): with timers that fire when due and no further commits,
\* every pending tree is eventually discarded, for every schedule of rebuilds.
C6_PendingEventuallyDiscarded == (optimistic # None) ~> (optimistic = None)

\* ------------------------------------------------------------------ C7
\* the order payload the claim expects for a column's card ids
ExpectedOrderPayload(ids) == [i \in 1..Len(ids) |-> [cardId |-> ids[i], order |-> i - 1]]

\* the columns of the tree that the change names as destination: those with
\* the new parent's id that hold the card, or all with that id if none does
DestinationColumns(m, tree, change) ==
    LET flat == FlatColumns(m, tree)
        named == ColumnsNamed(m, tree, change.newParentColumnId)
        holding == {k \in named : change.cardId \in Range(CardIdsOf(flat[k].cards))}
    IN IF holding # {} THEN holding ELSE named

\* the step committed a move and left a pending tree
Committed == Emitted /\ optimistic' # None /\ changeJSON' # None

\* the order payload after the step is the one claimed for column k
PayloadListsColumn(k) ==
    /\ sortOrderJSON' # None
    /\ sortOrderJSON'[1] =
          ExpectedOrderPayload(CardIdsOf(FlatColumns(mode, optimistic'[1])[k].cards))

UniqueCardRecordIds(d) ==
    \A i, j \in 1..Len(d.cards) : d.cards[i].id = d.cards[j].id => i = j

\* no two column records of the same board (of the widget) share an id
ColumnIdsUniqueWithinOwner(d) ==
    \A i, j \in 1..Len(d.columns) :
        (d.columns[i].id = d.columns[j].id /\ d.columns[i].parent = d.columns[j].parent)
            => i = j

\* no two column records share an id
ColumnIdsUnique(d) ==
    \A i, j \in 1..Len(d.columns) : d.columns[i].id = d.columns[j].id => i = j

\* no card id occurs twice in the authoritative tree or in the pending tree
CardsOccurOnce ==
    /\ UniqueCardIds(mode, base)
    /\ optimistic # None => UniqueCardIds(mode, optimistic[1])

\* C9 (as claimed): with globally unique card ids and column ids unique
\* within their board (multi) or the widget (single), every authoritative
\* tree and every pending tree derived from it by committed moves holds each
\* card id in one column, once.
C9_CardInOneColumn ==
    (UniqueCardRecordIds(data) /\ ColumnIdsUniqueWithinOwner(data)) => CardsOccurOnce

\* C9 (amended): the same, given column ids that are unique across all boards.
C9_CardInOneColumnGivenUniqueColumns ==
    (UniqueCardRecordIds(data) /\ ColumnIdsUnique(data)) => CardsOccurOnce

\* two committed moves in a row have produced a pending tree, different from
\* the rendered authoritative tree, from records with unique column ids
C9_Witness ==
    /\ UniqueCardRecordIds(data)
    /\ ColumnIdsUnique(data)
    /\ optimistic # None
    /\ dropCount = MaxEvents
    /\ base # <<>>
    /\ ColumnCardIds(mode, optimistic[1]) # ColumnCardIds(mode, base)

\* ------------------------------------------------------------------ C10
BoardIdsOf(m, tree) == IF m = "single" THEN {} ELSE {tree[b].id : b \in 1..Len(tree)}

ColumnIdsOf(m, tree) == {FlatColumns(m, tree)[k].id : k \in 1..Len(FlatColumns(m, tree))}

CardIdSetOf(m, tree) ==
    UNION {Range(CardIdsOf(FlatColumns(m, tree)[k].cards)) : k \in 1..Len(FlatColumns(m, tree))}

\* C10 (as claimed): whenever a pending tree exists it has the board ids and
\* column ids of the current authoritative tree and at least its card ids,
\* also across rebuilds that add or remove cards or columns.
C10_PendingIsVariantOfAuthoritative ==
    optimistic # None =>
        /\ BoardIdsOf(mode, optimistic[1]) = BoardIdsOf(mode, base)
        /\ ColumnIdsOf(mode, optimistic[1]) = ColumnIdsOf(mode, base)
        /\ CardIdSetOf(mode, base) \subseteq CardIdSetOf(mode, optimistic[1])

\* ------------------------------------------------------------------ C11
\* C11: a drag that ends with no drop target emits no move: the pending tree
\* and the displayed tree stay as they are, no change payload and no order
\* payload is written, the commit trigger is not invoked, and the hover
\* annotation is clear.
C11_NoTargetNoMove ==
    [][(IsDragEnd /\ over = None) =>
          /\ ~Emitted
          /\ optimistic' = optimistic
          /\ Displayed' = Displayed
          /\ changeJSON' = changeJSON
          /\ sortOrderJSON' = sortOrderJSON
          /\ execCount' = execCount
          /\ dragOverInfo' = None]_vars

\* a drag whose start callback has run is about to end over nothing while a
\* pending tree is displayed
C11_Witness ==
    /\ ~dirty
    /\ active # None
    /\ activeItem # None
    /\ over = None
    /\ optimistic # None
    /\ changeJSON # None

\* ---------------------------------------------------- C12, C13 and C14
\* the <<column, index>> positions (one-based, display order) of a card
CardPositions(m, tree, cardId) ==
    LET flat == FlatColumns(m, tree)
    IN UNION {{<<k, j>> : j \in {x \in 1..Len(flat[k].cards) : flat[k].cards[x].id = cardId}} :
                k \in 1..Len(flat)}

\* the tree names every column and every card once
UniqueIds(m, tree) ==
    /\ UniqueCardIds(m, tree)
    /\ \A k1, k2 \in 1..Len(FlatColumns(m, tree)) :
          FlatColumns(m, tree)[k1].id = FlatColumns(m, tree)[k2].id => k1 = k2

\* the drag-start callback of the session has run (the multi-board tracker
\* keeps nothing the drop depends on)
SessionEstablished == mode = "single" => (activeItem # None /\ activeColumnId # None)

\* the step ends an established drag over the card target T
DropOnCard(T) ==
    /\ IsDragEnd
    /\ SessionEstablished
    /\ over = Some(CardTarget(T))
    /\ UniqueIds(mode, Displayed)

\* C12 (as claimed): a card C dropped on a card T of another column of the
\* displayed tree emits a move to T's column with index T's index + 1; after
\* the commit C follows T immediately in T's column and is gone from its
\* former column.
C12_DropOnCardOfOtherColumn ==
    [][\A T \in CardIds \cup {"c4"} :
          \A pc \in CardPositions(mode, Displayed, StrOrEmpty(active)),
             pt \in CardPositions(mode, Displayed, T) :
             (DropOnCard(T) /\ pc[1] # pt[1]) =>
                LET flat == FlatColumns(mode, Displayed)
                    after == FlatColumns(mode, Displayed')
                    move == ResolvedMove
                IN /\ Emitted
                   /\ move # None
                   /\ move[1].targetColumnId = flat[pt[1]].id
                   /\ move[1].newIndex = Some(pt[2])
                   /\ Len(after) = Len(flat)
                   /\ ~ContainsCard(after[pc[1]], active[1])
                   /\ Len(after[pt[1]].cards) > pt[2]
                   /\ after[pt[1]].cards[pt[2]].id = T
                   /\ after[pt[1]].cards[pt[2] + 1].id = active[1]]_vars

\* C13 (as claimed): a card C dropped on another card T of its own column
\* emits a move to that column with index T's index before the drop; after
\* the commit C is at that index and the other cards keep their order.
C13_DropOnCardOfOwnColumn ==
    [][\A T \in CardIds \cup {"c4"} :
          \A pc \in CardPositions(mode, Displayed, StrOrEmpty(active)),
             pt \in CardPositions(mode, Displayed, T) :
             (DropOnCard(T) /\ pc[1] = pt[1] /\ pc[2] # pt[2]) =>
                LET flat == FlatColumns(mode, Displayed)
                    after == FlatColumns(mode, Displayed')
                    move == ResolvedMove
                IN /\ Emitted
                   /\ move # None
                   /\ move[1].targetColumnId = flat[pt[1]].id
                   /\ move[1].newIndex = Some(pt[2] - 1)
                   /\ Len(after) = Len(flat)
                   /\ Len(after[pt[1]].cards) = Len(flat[pt[1]].cards)
                   /\ after[pt[1]].cards[pt[2]].id = active[1]
                   /\ Without(CardIdsOf(after[pt[1]].cards), active[1]) =
                         Without(CardIdsOf(flat[pt[1]].cards), active[1])]_vars

\* the step ends an established drag over the column target with this id
DropOnColumn(columnId) ==
    /\ IsDragEnd
    /\ SessionEstablished
    /\ over = Some(ColumnTarget(columnId))
    /\ UniqueIds(mode, Displayed)

\* C14 (as claimed): a card dropped on the empty area of a column other than
\* its own emits a move to that column without an index; after the commit the
\* card is the last card of that column and is gone from its former column.
C14_DropOnOtherColumn ==
    [][\A kt \in 1..Len(FlatColumns(mode, Displayed)) :
          \A pc \in CardPositions(mode, Displayed, StrOrEmpty(active)) :
             (DropOnColumn(FlatColumns(mode, Displayed)[kt].id) /\ pc[1] # kt) =>
                LET flat == FlatColumns(mode, Displayed)
                    after == FlatColumns(mode, Displayed')
                    move == ResolvedMove
                IN /\ Emitted
                   /\ move # None
                   /\ move[1].targetColumnId = flat[kt].id
                   /\ move[1].newIndex = None
                   /\ Len(after) = Len(flat)
                   /\ ~ContainsCard(after[pc[1]], active[1])
                   /\ Len(after[kt].cards) = Len(flat[kt].cards) + 1
                   /\ after[kt].cards[Len(after[kt].cards)].id = active[1]]_vars

\* ------------------------------------------------------------------ C15
\* does a sink throw while the pipeline commits this move? The change
\* payload is always written, the order payload only when the moved tree has
\* the target column, the trigger only when it is executable.
SinkThrows(move) ==
    LET moved == performOptimisticCardMove(mode, Displayed, move.cardId,
                                           move.sourceColumnId, move.targetColumnId,
                                           move.newIndex)
    IN \/ sinkFails = "change"
       \/ sinkFails = "order" /\ FindTargetColumn(mode, moved, move.targetColumnId) # None
       \/ sinkFails = "execute" /\ canExecute

\* C15: when writing the change payload, writing the order payload or
\* invoking the trigger throws during the commit of card C, then after the
\* handler no pending tree exists (also when an earlier one existed), the
\* authoritative tree is displayed, and C is neither marked as using its
\* cache nor has cached content left; the drag session still ends normally.
C15_FailedCommitRollsBack ==
    [][IF IsDragEnd /\ Emitted
       THEN LET move == ResolvedMove[1]
            IN SinkThrows(move) =>
                  /\ optimistic' = None
                  /\ Displayed' = base
                  /\ move.cardId \notin cardsUsingCache'
                  /\ move.cardId \notin cachedCardContent'
                  /\ active' = None /\ over' = None
       ELSE TRUE]_vars

\* a second commit has just thrown while the pending tree of the first was
\* still awaiting reconciliation (its timer is still armed)
C15_Witness ==
    /\ sinkFails # "none"
    /\ dropCount = 2
    /\ changeJSON # None
    /\ optimistic = None
    /\ timer # None
    /\ dirty

\* ------------------------------------------------------------------ C16
\* the move names a source column that does not hold the card in the
\* displayed tree, or a source or target column the tree does not have
Inapplicable(move) ==
    LET flat == FlatColumns(mode, Displayed)
        ids == {flat[i].id : i \in 1..Len(flat)}
    IN \/ move.sourceColumnId \notin ids
       \/ move.targetColumnId \notin ids
       \/ \A i \in 1..Len(flat) :
             flat[i].id = move.sourceColumnId => ~ContainsCard(flat[i], move.cardId)

\* C16 (as claimed): a commit whose card is absent from the named source
\* column of the displayed tree, or whose source or target column is absent
\* from the tree, is a no-op: the displayed tree is unchanged, no change
\* payload and no order payload is written and the trigger is not invoked.
C16_InapplicableCommitIsNoOp ==
    [][IF IsDragEnd /\ Emitted
       THEN Inapplicable(ResolvedMove[1]) =>
               /\ Displayed' = Displayed
               /\ changeJSON' = changeJSON
               /\ sortOrderJSON' = sortOrderJSON
               /\ execCount' = execCount
       ELSE TRUE]_vars

\* ------------------------------------------------------------------ C17
\* the change payload of a move
ChangePayload(move) ==
    [cardId |-> move.cardId, oldParentColumnId |-> move.sourceColumnId,
     newParentColumnId |-> move.targetColumnId]

\* after the step both payloads are those of this move: the change payload
\* names it and the order payload lists its target column as moved
PayloadsWritten(move) ==
    LET moved == performOptimisticCardMove(mode, Displayed, move.cardId,
                                           move.sourceColumnId, move.targetColumnId,
                                           move.newIndex)
        target == FindTargetColumn(mode, moved, move.targetColumnId)
    IN /\ changeJSON' = Some(ChangePayload(move))
       /\ target # None
       /\ sortOrderJSON' = Some(sortOrderData(target[1].cards))

\* C17 (as claimed): within one commit the trigger is invoked at most once,
\* only if the action is executable, and only after the change payload and
\* then the order payload of that same move have been written; no step
\* other than a commit invokes it.
C17_TriggerAfterPayloads ==
    [][IF IsDragEnd /\ Emitted
       THEN /\ execCount' \in {execCount, execCount + 1}
            /\ execCount' # execCount =>
                  canExecute /\ PayloadsWritten(ResolvedMove[1])
       ELSE execCount' = execCount]_vars

\* ------------------------------------------------------------------ C18
\* a column of the displayed tree with this id holds the card
HeldBy(columnId, cardId) ==
    LET flat == FlatColumns(mode, Displayed)
    IN \E i \in 1..Len(flat) : flat[i].id = columnId /\ ContainsCard(flat[i], cardId)

\* C18 (as claimed): for every move emitted at drag end, the sourceColumnId
\* handed to the commit pipeline, which is written as oldParentColumnId of
\* the change payload, is the id of the column that holds the dragged card
\* in the displayed tree at the moment of the drop, whatever was rebuilt or
\* discarded since the drag started.
C18_SourceIsHoldingColumn ==
    [][IF IsDragEnd /\ Emitted
       THEN /\ HeldBy(ResolvedMove[1].sourceColumnId, active[1])
            /\ changeJSON' # None =>
                  changeJSON'[1].oldParentColumnId = ResolvedMove[1].sourceColumnId
       ELSE TRUE]_vars

\* ------------------------------------------------------------------ C19
\* C19: right after a commit whose sinks accept the move, the displayed tree
\* is the pending tree, and it is applyMove of the tree that was displayed
\* just before the commit (the earlier pending tree if there was one, else
\* the authoritative tree): a second commit before reconciliation composes
\* on the first move.
C19_CommitAppliesToDisplayedTree ==
    [][IF IsDragEnd /\ Emitted
       THEN LET move == ResolvedMove[1]
            IN ~SinkThrows(move) =>
                  /\ optimistic' # None
                  /\ Displayed' = performOptimisticCardMove(
                                      mode, Displayed, move.cardId, move.sourceColumnId,
                                      move.targetColumnId, move.newIndex)
       ELSE TRUE]_vars

\* two cards were committed one after the other, the second while the
\* pending tree of the first was awaited, and the displayed tree shows both
\* away from their authoritative positions
C19_Witness ==
    /\ dropCount = 2
    /\ dirty
    /\ timer # None
    /\ optimistic # None
    /\ \E c \in CardIds, d \in CardIds :
          /\ c # d
          /\ \A x \in {c, d} :
                /\ CardPositions(mode, base, x) # {}
                /\ CardPositions(mode, optimistic[1], x) # {}
                /\ \A p \in CardPositions(mode, base, x),
                      q \in CardPositions(mode, optimistic[1], x) : p[1] # q[1]

\* ------------------------------------------------------------------ C20
\* C20 (as claimed): a card marked as using its cached presentation by a
\* successful commit keeps the mark, and its cached content, as long as the
\* pending tree exists: no step that starts and ends with a pending tree
\* releases a mark or drops the cached content of a marked card; only the
\* discard of the pending tree, by match or by the 3000 ms fallback, does.
C20_MarkKeptWhilePending ==
    [][(optimistic # None /\ optimistic' # None) =>
          /\ cardsUsingCache \subseteq cardsUsingCache'
          /\ (cardsUsingCache \cap cachedCardContent) \subseteq cachedCardContent']_vars

\* ------------------------------------------------------------------ C21
\* the step is the fallback timer's callback
IsTimerFire == ~dirty /\ timer = Some(0) /\ timer' = None

\* C21: once the component has rendered and run its effects, a fallback
\* timer is armed only if a pending tree exists (the model holds at most one
\* timer, as the effect clears the previous one before it sets the next);
\* and the timer that discards a pending tree was armed after the last
\* commit: when it fires, at least 3000 ms have passed since that commit, so
\* a timer armed for an earlier pending tree never discards a later one.
C21_TimerBelongsToPendingTree ==
    [][/\ ~dirty' => (timer' # None => optimistic' # None)
       /\ IsTimerFire => (optimistic # None /\ age >= Timeout)]_vars

\* the pending tree of a second commit is about to be discarded by a timer
\* armed at the render that followed that commit
C21_Witness ==
    /\ dropCount = 2
    /\ ~dirty
    /\ optimistic # None
    /\ timer = Some(0)
    /\ age = Timeout

\* ------------------------------------------------------------------ C22
\* the step is a commit in which a sink throws
IsFailedCommit ==
    IF IsDragEnd /\ Emitted THEN SinkThrows(ResolvedMove[1]) ELSE FALSE

\* C22: a pending tree becomes absent only in a render whose reconciliation
\* check finds the rebuilt authoritative tree matching it, when the fallback
\* timer fires, or in a commit that fails; and it is replaced by another
\* tree only by a commit. Drag events that emit nothing and rebuilds that do
\* not match leave it as it is.
C22_PendingTreeLeavesOnlyThreeWays ==
    [][/\ (optimistic # None /\ optimistic' = None) =>
             \/ IsRender /\ StructuralMatch(mode, optimistic[1], base')
             \/ IsTimerFire
             \/ IsFailedCommit
       /\ (optimistic # None /\ optimistic' # None /\ optimistic' # optimistic) =>
             (IsDragEnd /\ Emitted)]_vars

\* a stale rebuild has just been rendered while a card is dragged over a
\* target, and the pending tree is still there, differing from the
\* authoritative tree
C22_Witness ==
    /\ ~dirty
    /\ optimistic # None
    /\ timer = Some(Timeout)
    /\ age > 0
    /\ active # None
    /\ over # None
    /\ ColumnCardIds(mode, optimistic[1]) # ColumnCardIds(mode, base)

\* ------------------------------------------------------------------ C23
\* the tracker is Idle: no active card, no active column, no hover
Idle == activeItem = None /\ activeColumnId = None /\ dragOverInfo = None

\* C23 (as claimed): when no drag is in progress and every animation-frame
\* callback scheduled by the drag handlers has run, the tracker is Idle,
\* whatever the order of the callbacks and the drag events was, also when
\* the drag ended before its drag-start callback ran.
C23_IdleAfterCallbacks == (active = None /\ raf = <<>>) => Idle

\* ------------------------------------------------------------------ C24
\* the step is an onDragOver
IsDragOver == active # None /\ active' = active /\ over' # over

\* the ids of the columns a target stands for: the column itself, or the
\* columns of the displayed tree that hold the hovered card
HoveredColumnIds(target) ==
    LET flat == FlatColumns(mode, Displayed)
    IN IF target.type = "column" THEN {target.id}
       ELSE {flat[i].id : i \in {k \in 1..Len(flat) : ContainsCard(flat[k], target.id)}}

\* C24 (as claimed): after an onDragOver the hover annotation is non-null
\* only if the hovered column, or the column of the hovered card, is not the
\* column that holds the dragged card in the tree displayed at that event.
C24_NoHoverOverOwnColumn ==
    [][(IsDragOver /\ dragOverInfo' # None) =>
          /\ over' # None
          /\ \A id \in HoveredColumnIds(over'[1]) : ~HeldBy(id, active[1])]_vars

\* ------------------------------------------------------------------ C25
\* the target is neither a column nor a card that some column of the
\* displayed tree holds
Unresolved(target) ==
    \/ target.type \notin {"card", "column"}
    \/ target.type = "card" /\ HoveredColumnIds(target) = {}

\* C25 (as claimed): after an onDragOver whose target resolves to neither a
\* column nor a card located in the displayed tree, a card target whose id
\* is in no column included, the hover annotation is null, whatever it was
\* before.
C25_UnresolvedTargetClearsHover ==
    [][IF IsDragOver /\ over' # None
       THEN Unresolved(over'[1]) => dragOverInfo' = None
       ELSE TRUE]_vars

\* ------------------------------------------------------------------ C26
\* the drop is on the empty area of a column that holds the dragged card
OwnColumnDrop ==
    /\ over # None
    /\ over[1].type = "column"
    /\ HeldBy(over[1].id, active[1])

\* the drop is on a target that resolves to no column and no card, by type
\* or by the pattern of its id
UnresolvableDrop ==
    /\ over # None
    /\ Unresolved(over[1])
    /\ columnMatch(over[1].id) = None

\* C26 (as claimed): an onDragEnd emits a move only if the target column of
\* the move differs from its source column or the move carries a concrete
\* non-negative index; a drop on the empty area of the dragged card's own
\* column and a drop on an unresolvable target emit nothing and leave the
\* displayed tree unchanged.
C26_EmitsOnlyRealMoves ==
    [][IF IsDragEnd
       THEN /\ Emitted =>
                 \/ ResolvedMove[1].targetColumnId # ResolvedMove[1].sourceColumnId
                 \/ /\ ResolvedMove[1].newIndex # None
                    /\ ResolvedMove[1].newIndex[1] >= 0
            /\ (OwnColumnDrop \/ UnresolvableDrop) =>
                 (~Emitted /\ Displayed' = Displayed)
       ELSE TRUE]_vars

\* ------------------------------------------------------------------ C27
\* does the move find its two columns and the card in the source column?
Applies(m, flat, cardId, sourceColumnId, targetColumnId) ==
    LET si == FoundColumn(m, flat, sourceColumnId)
    IN /\ si # 0
       /\ FoundColumn(m, flat, targetColumnId) # 0
       /\ FindIndexById(flat[si].cards, cardId) # 0

\* the card arrays of the input tree hold after the call what they held
\* before it; and when the move applies, the arrays of the copy hold the
\* cards of the tree the function returns
InputUntouched(m, tree, flat, cardId, sourceColumnId, targetColumnId, newIndex) ==
    LET n == Len(flat)
        heap == HeapAfterMove(m, flat, cardId, sourceColumnId, targetColumnId, newIndex)
    IN /\ \A k \in 1..n : heap[k] = flat[k].cards
       /\ Applies(m, flat, cardId, sourceColumnId, targetColumnId) =>
             LET result == FlatColumns(m, performOptimisticCardMove(
                               m, tree, cardId, sourceColumnId, targetColumnId, newIndex))
             IN \A k \in 1..n : heap[cardsRef(k, n)] = result[k].cards

\* C27: applyMove never mutates its input: for every displayed tree and every
\* combination of card id, source column id, target column id and index,
\* applicable or not, every column of the input tree has the same card
\* sequence after the call as before it.
C27_MoveLeavesInputAlone ==
    ~dirty =>
        LET flat == FlatColumns(mode, Displayed)
        IN \A c \in CardIds \cup {"c4"}, s \in HarnessColumnIds \cup {"D"},
              t \in HarnessColumnIds \cup {"D"}, i \in IndexOptions :
               InputUntouched(mode, Displayed, flat, c, s, t, i)

\* a pending tree made by an earlier move is displayed, and a further move
\* between two of its columns would apply
C27_Witness ==
    /\ ~dirty
    /\ optimistic # None
    /\ optimistic[1] # base
    /\ \E c \in CardIds, s \in HarnessColumnIds, t \in HarnessColumnIds :
          /\ s # t
          /\ performOptimisticCardMove(mode, Displayed, c, s, t, None) # Displayed

\* ------------------------------------------------------------------ C28
\* the indices of the boards that have a column with this id
BoardsOwning(boards, columnId) ==
    {b \in 1..Len(boards) :
        \E k \in 1..Len(boards[b].columns) : boards[b].columns[k].id = columnId}

\* the indices of the boards under which the card is reachable
BoardsReaching(boards, cardId) ==
    {b \in 1..Len(boards) :
        \E k \in 1..Len(boards[b].columns) : ContainsCard(boards[b].columns[k], cardId)}

\* the move of card c from column s to column t, which other boards own,
\* turned boards into result by changing the cards of s and t alone, and c
\* is reachable under the boards of t only
CrossBoardResult(boards, result, c, s, t) ==
    /\ Len(result) = Len(boards)
    /\ \A b \in 1..Len(boards) :
          /\ result[b].id = boards[b].id
          /\ Len(result[b].columns) = Len(boards[b].columns)
          /\ \A k \in 1..Len(boards[b].columns) :
                /\ result[b].columns[k].id = boards[b].columns[k].id
                /\ boards[b].columns[k].id \notin {s, t} =>
                      result[b].columns[k].cards = boards[b].columns[k].cards
                /\ Without(CardIdsOf(result[b].columns[k].cards), c) =
                      Without(CardIdsOf(boards[b].columns[k].cards), c)
    /\ BoardsReaching(result, c) # {}
    /\ BoardsReaching(result, c) \subseteq BoardsOwning(boards, t)

\* C28: in multi-board mode a move between columns of different boards
\* changes the card sequences of those two columns only: the order of the
\* boards, the column ids of every board and the cards of every other column
\* stay, and the moved card is then reachable only under the board that owns
\* the target column.
C28_CrossBoardMove ==
    (~dirty /\ mode = "multi") =>
        LET flat == FlatColumns(mode, Displayed)
        IN \A c \in CardIds, s \in HarnessColumnIds, t \in HarnessColumnIds :
              (/\ Applies(mode, flat, c, s, t)
               /\ BoardsOwning(Displayed, s) \cap BoardsOwning(Displayed, t) = {}) =>
                 \A i \in IndexOptions :
                    CrossBoardResult(Displayed,
                        performOptimisticCardMove(mode, Displayed, c, s, t, i), c, s, t)

\* a card has been moved from a column of one board to a column of the
\* other, which held cards already, and is displayed there
C28_Witness ==
    /\ ~dirty
    /\ mode = "multi"
    /\ optimistic # None
    /\ Len(base) = 2
    /\ \E c \in CardIds :
          /\ BoardsReaching(base, c) # {}
          /\ BoardsReaching(optimistic[1], c) # {}
          /\ BoardsReaching(base, c) \cap BoardsReaching(optimistic[1], c) = {}

\* ------------------------------------------------------------------ C29
\* what a tree shows: the <<board id, column id, card id sequence>> triples
\* of its columns (the board id is empty in single-board mode)
Shown(m, tree) ==
    IF m = "single"
    THEN {<<"", tree[k].id, CardIdsOf(tree[k].cards)>> : k \in 1..Len(tree)}
    ELSE UNION {{<<tree[b].id, tree[b].columns[k].id, CardIdsOf(tree[b].columns[k].cards)>> :
                    k \in 1..Len(tree[b].columns)} : b \in 1..Len(tree)}

\* the step is a render whose reconciliation check discards the pending tree
IsMatchDiscard == IsRender /\ optimistic # None /\ optimistic' = None

RecordsUnder(recs, parentId) ==
    {i \in 1..Len(recs) : (IF recs[i].parent = None THEN "" ELSE recs[i].parent[1]) = parentId}

\* the id a record is shown with: the empty string when it is missing
ShownId(r) == IF r.id = None THEN "" ELSE r.id[1]

\* the cards of the column are, one for one, the card records under its id
ColumnHoldsItsCards(d, column) ==
    LET mine == RecordsUnder(d.cards, column.id)
    IN /\ Len(column.cards) = Cardinality(mine)
       /\ \A i \in mine :
             \E j \in 1..Len(column.cards) :
                /\ column.cards[j].item = d.cards[i].guid
                /\ column.cards[j].id = ShownId(d.cards[i])

\* the columns are, one for one, the given column records
ColumnsAreRecords(d, columns, records) ==
    /\ Len(columns) = Cardinality(records)
    /\ \A id \in {ShownId(d.columns[i]) : i \in records} :
          Cardinality({k \in 1..Len(columns) : columns[k].id = id}) =
              Cardinality({i \in records : ShownId(d.columns[i]) = id})
    /\ \A k \in 1..Len(columns) : ColumnHoldsItsCards(d, columns[k])

\* C30: in the tree the builder makes of an available data source, a card
\* record is in a column's sequence iff its parent id is the column's id,
\* and a column is under a board iff its parent id is the board's id, a
\* missing id counting as the empty string; a card whose parent id is no
\* column's id is in no column; records without an id are kept, with the
\* empty string as id. In single-board mode every column record is a column.
C30_BuilderFiltersByParent ==
    (~dirty /\ data.status = "available") =>
        IF mode = "single"
        THEN ColumnsAreRecords(data, base, 1..Len(data.columns))
        ELSE /\ Len(base) = Len(data.boards)
             /\ \A b \in 1..Len(base) :
                   /\ \E i \in 1..Len(data.boards) : ShownId(data.boards[i]) = base[b].id
                   /\ ColumnsAreRecords(data, base[b].columns,
                                        RecordsUnder(data.columns, base[b].id))

\* a tree was built of records among which a card has no id, a card has no
\* parent and a card names a column that does not exist
C30_Witness ==
    /\ ~dirty
    /\ data = HarnessIncomplete(mode)
    /\ Len(base) > 0
    /\ \E k \in 1..Len(FlatColumns(mode, base)) :
          /\ FlatColumns(mode, base)[k].id = "A"
          /\ \E j \in 1..Len(FlatColumns(mode, base)[k].cards) :
                FlatColumns(mode, base)[k].cards[j].id = ""

\* ------------------------------------------------------------------ C31
\* no column has the source id, or none has the target id, or no column with
\* the source id holds the card
MoveCannotApply(flat, cardId, sourceColumnId, targetColumnId) ==
    \/ \A k \in 1..Len(flat) : flat[k].id # sourceColumnId
    \/ \A k \in 1..Len(flat) : flat[k].id # targetColumnId
    \/ \A k \in 1..Len(flat) :
          flat[k].id = sourceColumnId =>
              \A j \in 1..Len(flat[k].cards) : flat[k].cards[j].id # cardId

\* C31: applyMove returns its input tree as it is whenever the source column
\* id is not in the tree, the target column id is not in the tree, or the
\* card id is not in the source column: no card is removed, inserted or given
\* another key.
C31_InapplicableMoveReturnsInput ==
    ~dirty =>
        LET flat == FlatColumns(mode, Displayed)
        IN \A c \in CardIds \cup {"c4"}, s \in HarnessColumnIds \cup {"D"},
              t \in HarnessColumnIds \cup {"D"}, i \in IndexOptions :
               MoveCannotApply(flat, c, s, t) =>
                   performOptimisticCardMove(mode, Displayed, c, s, t, i) = Displayed

\* a move that cannot apply was made on a tree that holds its card: the card
\* is in column A, so a move of it out of B and a move of it to D both fail
C31_Witness ==
    /\ ~dirty
    /\ optimistic = Some(base)
    /\ budget < MaxMoves
    /\ LET flat == FlatColumns(mode, base)
       IN \E k \in 1..Len(flat) :
             /\ flat[k].id = "A"
             /\ Len(flat[k].cards) > 0
             /\ MoveCannotApply(flat, flat[k].cards[1].id, "B", "A")
             /\ MoveCannotApply(flat, flat[k].cards[1].id, "A", "D")

\* ------------------------------------------------------------------ C32
\* the tree of a multi-board widget whose only board has these columns
OneBoard(columns) == <<[id |-> "b1", columns |-> columns, sortValue |-> 0]>>

\* a single-board drag over a target, whose tracker has run its start
\* callback and names the column that holds the dragged card
FreshSingleBoardDrag ==
    /\ mode = "single"
    /\ ~dirty
    /\ active # None
    /\ over # None
    /\ activeItem = active
    /\ activeColumnId # None
    /\ HeldBy(activeColumnId[1], active[1])

\* C32 (as claimed): for the same displayed columns, the same dragged card
\* and the same drop target, the single-board handler and the multi-board
\* handler of a widget with exactly one board resolve the drop alike: both
\* emit the same card, source column, target column and index, or neither
\* emits.
C32_ModesResolveAlike ==
    FreshSingleBoardDrag =>
        AdvancedKanbanBoard_resolveDrop(Displayed, active[1], activeColumnId[1], over[1])
            = MultiBoardDragDrop_resolveDrop(OneBoard(Displayed), active[1], over[1])

\* ------------------------------------------------------------------ C33
\* the <<column, index>> positions of the cards of a tree
Places(flat) ==
    UNION {{<<k, j>> : j \in 1..Len(flat[k].cards)} : k \in 1..Len(flat)}

\* how many cards of the tree have this id and this source record
Copies(flat, id, item) ==
    Cardinality({p \in Places(flat) :
                    /\ flat[p[1]].cards[p[2]].id = id
                    /\ flat[p[1]].cards[p[2]].item = item})

\* the two trees hold every <<card id, source record>> pair equally often
SameCardCopies(before, after) ==
    \A p \in Places(before) \cup Places(after) :
        LET card == IF p \in Places(before) THEN before[p[1]].cards[p[2]]
                    ELSE after[p[1]].cards[p[2]]
        IN Copies(after, card.id, card.item) = Copies(before, card.id, card.item)

\* every card of the result is a card of the input as it was, or is a card
\* of the input with the key of the target column
OnlyKeyChanges(before, after, targetColumnId) ==
    \A p \in Places(after) :
        \E q \in Places(before) :
            LET old == before[q[1]].cards[q[2]]
                new == after[p[1]].cards[p[2]]
            IN \/ new = old
               \/ new = [old EXCEPT !.key = <<old.id, targetColumnId, "">>]

\* C33: applyMove conserves cards: for every tree and all arguments the
\* returned tree holds every card id as often as the input tree, each with
\* the source record it had; a card differs from its card in the input at
\* most in its display key, which is then the one of the target column.
C33_MoveConservesCards ==
    ~dirty =>
        LET flat == FlatColumns(mode, Displayed)
        IN \A c \in CardIds \cup {"c4"}, s \in HarnessColumnIds \cup {"D"},
              t \in HarnessColumnIds \cup {"D"}, i \in IndexOptions :
               LET moved == performOptimisticCardMove(mode, Displayed, c, s, t, i)
               IN IF moved = Displayed THEN TRUE
                  ELSE /\ SameCardCopies(flat, FlatColumns(mode, moved))
                       /\ OnlyKeyChanges(flat, FlatColumns(mode, moved), t)

\* two moves were applied, the second to the tree the first had made, and a
\* card is now in another column than the one the records put it in
C33_Witness ==
    /\ ~dirty
    /\ budget = 0
    /\ optimistic # None
    /\ \E c \in CardIds :
          \E k \in 1..Len(FlatColumns(mode, base)) :
             /\ ContainsCard(FlatColumns(mode, base)[k], c)
             /\ ~ContainsCard(FlatColumns(mode, optimistic[1])[k], c)
             /\ Copies(FlatColumns(mode, optimistic[1]), c, "card1") = 1

\* ------------------------------------------------------------------ C34
\* the step is a commit that wrote the change payload and, having found a
\* column with the target id in the tree it made, the order payload
WroteBothPayloads ==
    /\ IsDragEnd
    /\ Emitted
    /\ optimistic' # None
    /\ changeJSON' # None
    /\ sortOrderJSON' # None
    /\ ColumnsNamed(mode, optimistic'[1], changeJSON'[1].newParentColumnId) # {}

\* C34 (as claimed): whenever one commit writes both a change payload and an
\* order payload, the card named in the change payload is listed in the order
\* payload, and the order payload is that of a column of the pending tree
\* with the id written as newParentColumnId; in every reachable state,
\* whatever happened to the displayed tree during the drag.
C34_PayloadsAgree ==
    [][IF WroteBothPayloads
       THEN /\ \E i \in 1..Len(sortOrderJSON'[1]) :
                  sortOrderJSON'[1][i].cardId = changeJSON'[1].cardId
            /\ \E k \in ColumnsNamed(mode, optimistic'[1],
                                     changeJSON'[1].newParentColumnId) :
                  PayloadListsColumn(k)
       ELSE TRUE]_vars

\* ------------------------------------------------------------------ C36
\* the card is in a column with the source id and a column has the target id
ValidMove(flat, cardId, sourceColumnId, targetColumnId) ==
    /\ \E k \in 1..Len(flat) : flat[k].id = sourceColumnId /\ ContainsCard(flat[k], cardId)
    /\ \E k \in 1..Len(flat) : flat[k].id = targetColumnId

\* the order payload the board components write for the move: that of the
\* target column they find in the result of applyMove
BoardPayload(cardId, sourceColumnId, targetColumnId, newIndex) ==
    sortOrderData(
        FindTargetColumn(mode,
                         performOptimisticCardMove(mode, Displayed, cardId, sourceColumnId,
                                                   targetColumnId, newIndex),
                         targetColumnId)[1].cards)

\* the order payload the hook writes for the move, from the tree as it is
HookPayload(cardId, sourceColumnId, targetColumnId, newIndex) ==
    useCardDrop_sortOrderData(
        cardOrder(useCardDrop_targetColumn(Displayed, targetColumnId)[1].cards,
                  cardId, sourceColumnId, targetColumnId, newIndex))

ClearedTogether ==
    \A c \in CardIds \cup {"c4"} :
        (c \in cardsUsingCache /\ c \notin cardsUsingCache') => c \notin cachedCardContent'

\* C35: when due timers eventually fire and the commits come to an end, every
\* card id that is added to cardsUsingCache is eventually removed from it and
\* has no entry in cachedCardContent then, whether or not the pending tree is
\* ever reconciled; and whenever an id leaves cardsUsingCache it leaves
\* cachedCardContent in the same step.
C35_CacheEventuallyCleared ==
    /\ \A c \in CardIds \cup {"c4"} :
          (c \in cardsUsingCache) ~> (c \notin cardsUsingCache /\ c \notin cachedCardContent)
    /\ [][ClearedTogether]_vars

\* a card whose record was deleted is still shown from the cache after the
\* renders that followed its move, the pending tree is not reconciled, and
\* the timer of the cache hook has run down
C35_Witness ==
    /\ ~dirty
    /\ optimistic # None
    /\ cardsUsingCache # {}
    /\ CardsWithRealContent(data, cardsUsingCache) = {}
    /\ cacheTimer = Some(0)

====
